---- MODULE Spec2Model ----
(***************************************************************************)
(* A model of the data-voyager backend: the connection-config variants and *)
(* their Validate(), the plugin registry, the PostgreSQL and ClickHouse    *)
(* plugins (Connect / ValidateConfig / TestConnection over a driver        *)
(* handle), the gorm-backed metadata store and the datasource API          *)
(* handlers that sit on top of them.                                       *)
(***************************************************************************)
EXTENDS Integers, Sequences, FiniteSets, TLC

VARIABLES
    value,      \* the object a caller passes to Validate / ValidateConfig
    vprev,      \* that object as it was before the last call
    verr,       \* the error the last call returned ("" is nil)
    vcall,      \* the last call made on value
    plugins,    \* Registry.plugins: map from DataSourceType to Plugin
    regLog,     \* the plugins passed to Register so far, in call order
    getRes,     \* what the last Registry.Get returned
    listed,     \* the map the last Registry.List returned, as its caller holds it
    types,      \* what the last Registry.GetSupportedTypes returned
    handles,    \* the driver clients opened so far: "open" or "closed"
    proc,       \* one record per running call / request: its locals and pc
    store,      \* the datasources table: map from ID to row
    nextID,     \* the autoincrement counter of the datasources table
    now,        \* the wall clock, in ticks
    phase,      \* where the serve command is: "init", "serving", ...
    resp,       \* the last response an API handler wrote
    database,   \* the database a Connection talks to: its engine and tables
    cres,       \* the outcome of the last call made on that Connection
    cfg,        \* runServe's cfg: the *ViperConfig it serves with
    srv,        \* runServe's srv: the http.Server and whether it listens
    rerr        \* the error runServe returned

vars == <<value, vprev, verr, vcall, plugins, regLog, getRes, listed, types,
          handles, proc, store, nextID, now, phase, resp, database, cres,
          cfg, srv, rerr>>

configVars   == <<value, vprev, verr, vcall>>
registryVars == <<plugins, regLog, getRes, listed, types>>
driverVars   == <<handles>>
storeVars    == <<store, nextID, now>>
apiVars      == <<phase, resp>>
connVars     == <<database, cres>>
serveVars    == <<cfg, srv, rerr>>

-----------------------------------------------------------------------------
(* models.DataSourceType and the connection-config variants.               *)

DataSourceTypeClickHouse == "clickhouse"
DataSourceTypePostgreSQL == "postgresql"
DataSourceTypeSQLite     == "sqlite"
DataSourceTypeOpenSearch == "opensearch"

DataSourceTypes ==
    {DataSourceTypeClickHouse, DataSourceTypePostgreSQL,
     DataSourceTypeSQLite, DataSourceTypeOpenSearch}

DefaultPostgreSQLPort == 5432
DefaultClickHousePort == 9000
DefaultSSLMode        == "prefer"

\* The field values the configurations are built from.
Hosts    == {"", "localhost"}
Ports    == {-1, 0, 5432, 9000, 6543}
SSLModes == {"", "prefer", "require"}
Paths    == {"", "/data/app.db"}
URLLists == {<<>>, <<"http://os1:9200">>, <<"http://os1:9200", "http://os2:9200">>}

PostgreSQLConfigs ==
    [kind : {"PostgreSQLConfig"}, Host : Hosts, Port : Ports, SSLMode : SSLModes]
ClickHouseConfigs ==
    [kind : {"ClickHouseConfig"}, Host : Hosts, Port : Ports, Secure : BOOLEAN]
SQLiteConfigs ==
    [kind : {"SQLiteConfig"}, Path : Paths]
OpenSearchConfigs ==
    [kind : {"OpenSearchConfig"}, URLs : URLLists]

\* The values that implement models.ConnectionConfig.
ConnectionConfigs ==
    PostgreSQLConfigs \cup ClickHouseConfigs \cup SQLiteConfigs \cup OpenSearchConfigs

\* A JSON object as decoded into map[string]interface{}: the set of
\* <<key, value>> members it carries.
ConfigMaps ==
    { {},
      {<<"host", "localhost">>},
      {<<"host", "localhost">>, <<"port", 5432>>},
      {<<"path", "/data/app.db">>} }

\* Values of other dynamic types that reach a ValidateConfig(interface{}).
OtherValues ==
    {[kind |-> "string", s |-> "invalid"]} \cup [kind : {"map"}, m : ConfigMaps]

Values == ConnectionConfigs \cup OtherValues

NoError == ""

\* (*ClickHouseConfig).Validate: the error returned and the receiver after it.
ClickHouseConfigValidate(c) ==
    IF c.Host = "" THEN [err |-> "host is required", cfg |-> c]
    ELSE [err |-> NoError,
          cfg |-> IF c.Port <= 0 THEN [c EXCEPT !.Port = DefaultClickHousePort] ELSE c]

\* PostgreSQLConfig.Validate with the port test written as == 0.
PostgreSQLConfigValidateZeroOnly(c) ==
    IF c.Host = "" THEN [err |-> "host is required", cfg |-> c]
    ELSE LET c1 == IF c.Port = 0 THEN [c EXCEPT !.Port = DefaultPostgreSQLPort] ELSE c
             c2 == IF c1.SSLMode = "" THEN [c1 EXCEPT !.SSLMode = DefaultSSLMode] ELSE c1
         IN [err |-> NoError, cfg |-> c2]

\* (*PostgreSQLConfig).Validate
PostgreSQLConfigValidate(c) ==
    IF c.Host = "" THEN [err |-> "host is required", cfg |-> c]
    ELSE LET c1 == IF c.Port <= 0 THEN [c EXCEPT !.Port = DefaultPostgreSQLPort] ELSE c
             c2 == IF c1.SSLMode = "" THEN [c1 EXCEPT !.SSLMode = DefaultSSLMode] ELSE c1
         IN [err |-> NoError, cfg |-> c2]

\* (*SQLiteConfig).Validate
SQLiteConfigValidate(c) ==
    IF c.Path = "" THEN [err |-> "path is required", cfg |-> c]
    ELSE [err |-> NoError, cfg |-> c]

\* (*OpenSearchConfig).Validate
OpenSearchConfigValidate(c) ==
    IF Len(c.URLs) = 0 THEN [err |-> "at least one URL is required", cfg |-> c]
    ELSE [err |-> NoError, cfg |-> c]

\* ConnectionConfig.Validate, dispatched on the dynamic type of the receiver.
Validate(c) ==
    CASE c.kind = "ClickHouseConfig" -> ClickHouseConfigValidate(c)
      [] c.kind = "PostgreSQLConfig" -> PostgreSQLConfigValidate(c)
      [] c.kind = "SQLiteConfig"     -> SQLiteConfigValidate(c)
      [] c.kind = "OpenSearchConfig" -> OpenSearchConfigValidate(c)

-----------------------------------------------------------------------------
(* The two plugins.  A plugin value carries its type and, to tell two      *)
(* instances of one type apart, the instance number NewPlugin gave it.     *)

PluginTypes == {DataSourceTypePostgreSQL, DataSourceTypeClickHouse}

\* The config variant a plugin type-asserts for.
ConfigKindOf(t) ==
    IF t = DataSourceTypePostgreSQL THEN "PostgreSQLConfig" ELSE "ClickHouseConfig"

\* The product name the plugin puts into its messages.
ProductOf(t) ==
    IF t = DataSourceTypePostgreSQL THEN "PostgreSQL" ELSE "ClickHouse"

\* ValidateConfig asserting the ConnectionConfig interface instead of the
\* plugin's own struct.
ValidateConfigAnyVariant(t, config) ==
    IF config \notin ConnectionConfigs
    THEN [err |-> "config must be *models." \o ConfigKindOf(t), cfg |-> config]
    ELSE Validate(config)

\* Plugin.ValidateConfig(config interface{}) of the plugin of type t.
ValidateConfig(t, config) ==
    IF config.kind # ConfigKindOf(t)
    THEN [err |-> "config must be *models." \o ConfigKindOf(t), cfg |-> config]
    ELSE Validate(config)

-----------------------------------------------------------------------------
(* A caller holding one value and calling Validate / ValidateConfig on it. *)

ConfigInit ==
    /\ value \in Values
    /\ vprev = value
    /\ verr = NoError
    /\ vcall = [op |-> "none", plugin |-> "none"]

\* c.Validate() on a config of any of the four variants.
CallValidate ==
    /\ value \in ConnectionConfigs
    /\ LET r == Validate(value) IN
         /\ value' = r.cfg
         /\ verr' = r.err
    /\ vprev' = value
    /\ vcall' = [op |-> "Validate", plugin |-> "none"]
    /\ UNCHANGED <<serveVars, connVars, registryVars, driverVars, storeVars, apiVars, proc>>

\* plugin.ValidateConfig(value) on the plugin of type t.
CallValidateConfig(t) ==
    /\ LET r == ValidateConfig(t, value) IN
         /\ value' = r.cfg
         /\ verr' = r.err
    /\ vprev' = value
    /\ vcall' = [op |-> "ValidateConfig", plugin |-> t]
    /\ UNCHANGED <<serveVars, connVars, registryVars, driverVars, storeVars, apiVars, proc>>

-----------------------------------------------------------------------------
(* datasource.Registry                                                     *)

MaxInst == 2
MaxRegs == 3

Plugins   == [type : PluginTypes, inst : 1..MaxInst]
NilPlugin == [type |-> "nil", inst |-> 0]

\* Plugin.GetType
GetType(p) == p.type

\* NewRegistry: an empty map.
NewRegistry == [t \in {} |-> NilPlugin]

\* Register that keeps an entry already present.
RegisterKeepFirst(r, plugin) ==
    [t \in (DOMAIN r) \cup {GetType(plugin)} |->
        IF t \in DOMAIN r THEN r[t] ELSE plugin]

\* (*Registry).Register: r.plugins[plugin.GetType()] = plugin
Register(r, plugin) ==
    [t \in (DOMAIN r) \cup {GetType(plugin)} |->
        IF t = GetType(plugin) THEN plugin ELSE r[t]]

\* (*Registry).Get: the two-value map lookup.
Get(r, dsType) ==
    IF dsType \in DOMAIN r
    THEN [plugin |-> r[dsType], found |-> TRUE]
    ELSE [plugin |-> NilPlugin, found |-> FALSE]

\* A list with n zero values ahead of the keys: make([]T, n) in place of
\* make([]T, 0, n).
GetSupportedTypesPrefilled(r) ==
    LET n == Cardinality(DOMAIN r) IN
    { s \in [1..(2 * n) -> (DOMAIN r) \cup {""}] :
        /\ \A i \in 1..n : s[i] = ""
        /\ \A t \in DOMAIN r : \E i \in (n + 1)..(2 * n) : s[i] = t }

\* (*Registry).GetSupportedTypes: one append per key of the map, in the
\* order the range statement visits them, which Go leaves unspecified: the
\* set of the lists a call may return.
GetSupportedTypes(r) ==
    LET n == Cardinality(DOMAIN r) IN
    { s \in [1..n -> DOMAIN r] : \A t \in DOMAIN r : \E i \in 1..n : s[i] = t }

\* List handing out the registry's own map.
ListNoCopy(r) == [ref |-> "plugins", m |-> r]

\* (*Registry).List: a new map filled with every entry of r.plugins.
List(r) == [ref |-> "result", m |-> [k \in DOMAIN r |-> r[k]]]

\* How many times the callers of List have written the map they were given.
MaxMuts == 2

NoGet   == [type |-> "none", at |-> 0, plugin |-> NilPlugin, found |-> FALSE]
NoList  == [ref |-> "none", m |-> NewRegistry, muts |-> 0]
NoTypes == [taken |-> FALSE, seq |-> <<>>]

RegistryInit ==
    /\ plugins = NewRegistry
    /\ regLog = <<>>
    /\ getRes = NoGet
    /\ listed = NoList
    /\ types = NoTypes

\* registry.Register(plugin), by whoever holds the registry.  getRes, listed
\* and types hold what was read since the registry was last written.
DoRegister(plugin) ==
    /\ Len(regLog) < MaxRegs
    /\ plugins' = Register(plugins, plugin)
    /\ regLog' = Append(regLog, plugin)
    /\ getRes' = NoGet
    /\ listed' = NoList
    /\ types' = NoTypes
    /\ UNCHANGED <<serveVars, connVars, configVars, driverVars, storeVars, apiVars, proc>>

\* registry.Get(dsType)
DoGet(dsType) ==
    /\ getRes' = [type |-> dsType, at |-> Len(regLog)] @@ Get(plugins, dsType)
    /\ UNCHANGED <<serveVars, connVars, plugins, regLog, listed, types,
                   configVars, driverVars, storeVars, apiVars, proc>>

\* registry.GetSupportedTypes()
DoGetSupportedTypes ==
    /\ \E s \in GetSupportedTypes(plugins) :
          types' = [taken |-> TRUE, seq |-> s]
    /\ UNCHANGED <<serveVars, connVars, plugins, regLog, getRes, listed,
                   configVars, driverVars, storeVars, apiVars, proc>>

\* registry.List(): the caller keeps the map it is given.
DoList ==
    /\ listed' = [muts |-> 0] @@ List(plugins)
    /\ UNCHANGED <<serveVars, connVars, plugins, regLog, getRes, types,
                   configVars, driverVars, storeVars, apiVars, proc>>

\* A write through the map List returned reaches the map that value refers
\* to: the caller's own copy, or r.plugins if it is the same map.  getRes
\* and types hold what was read since that write.
WriteListed(m) ==
    /\ listed.ref # "none"
    /\ listed.muts < MaxMuts
    /\ IF listed.ref = "plugins"
       THEN /\ plugins' = m
            /\ listed' = [listed EXCEPT !.m = m, !.muts = @ + 1]
       ELSE /\ plugins' = plugins
            /\ listed' = [listed EXCEPT !.m = m, !.muts = @ + 1]
    /\ getRes' = NoGet
    /\ types' = NoTypes
    /\ UNCHANGED <<serveVars, connVars, regLog,
                   configVars, driverVars, storeVars, apiVars, proc>>

\* The caller adds or replaces an entry of the returned map: m[t] = plugin
CallerPut(t, plugin) ==
    WriteListed([k \in (DOMAIN listed.m) \cup {t} |->
                    IF k = t THEN plugin ELSE listed.m[k]])

\* The caller deletes an entry of the returned map: delete(m, t)
CallerDelete(t) ==
    /\ t \in DOMAIN listed.m
    /\ WriteListed([k \in (DOMAIN listed.m) \ {t} |-> listed.m[k]])

-----------------------------------------------------------------------------
(* Calls into a plugin: Connect and TestConnection, step by step, over the *)
(* driver clients in handles.  PostgreSQL (plugin.go) and ClickHouse have  *)
(* the same control flow; they differ in the config variant they assert,   *)
(* in the messages, and in that only PostgreSQL builds a connection string.*)

Procs == {1, 2}
MaxHandles == 2
MaxCloses  == 2

\* time.Duration counts nanoseconds; (Duration).Milliseconds() is the whole
\* number of milliseconds in it.
Millisecond == 1000000
Milliseconds(d) == d \div Millisecond

\* What time.Since(start) can be when TestConnection has connected and
\* pinged: under a millisecond, a millisecond, more.
Durations == {400000, 1000000, 2500000}

NoConfig == [kind |-> "nil"]
NoResult == [IsConnected |-> FALSE, Message |-> "nil", Latency |-> 0, isNil |-> TRUE]
NoReq    == [kind |-> "none"]
NoRow    == [ID |-> 0]

\* The zero value of store.DataSourceStats.
NoStats  == [TotalCount |-> 0, ActiveCount |-> 0, CountByType |-> [t \in {} |-> 0]]

IdleProc ==
    [op |-> "idle", pc |-> "idle", plugin |-> "none", config |-> NoConfig,
     db |-> 0, conn |-> 0, err |-> NoError, result |-> NoResult,
     retErr |-> NoError, events |-> <<>>, opened |-> {},
     req |-> NoReq, ds |-> NoRow, status |-> 0, reachable |-> TRUE,
     stats |-> NoStats]

\* The configurations callers hand to the plugins.
CallConfigs ==
    { c \in ConnectionConfigs :
        \/ c.kind \in {"PostgreSQLConfig", "ClickHouseConfig"} /\ c.Port = 0
             /\ (c.kind = "PostgreSQLConfig" => c.SSLMode = "")
             /\ (c.kind = "ClickHouseConfig" => ~c.Secure)
        \/ c.kind = "SQLiteConfig" /\ c.Path # "" }

Event(name, ok) == [e |-> name, ok |-> ok]

DriverInit == handles = <<>>
ProcInit   == proc = [p \in Procs |-> IdleProc]

\* A caller invokes plugin.Connect(ctx, config) or
\* plugin.TestConnection(ctx, config) on the plugin of type t; the host the
\* config names can be reached over the network or not.
StartCall(p, op, t, config) ==
    /\ proc[p].op = "idle"
    /\ Len(handles) < MaxHandles
    /\ \E reachable \in BOOLEAN :
         proc' = [proc EXCEPT ![p] =
            [IdleProc EXCEPT !.op = op, !.pc = "assert", !.plugin = t, !.config = config,
                             !.reachable = reachable]]
    /\ UNCHANGED <<serveVars, connVars, configVars, registryVars, driverVars, storeVars, apiVars>>

\* Connect: config.(*models.XConfig)
ConnectAssert(p) ==
    /\ proc[p].pc = "assert"
    /\ LET ok == proc[p].config.kind = ConfigKindOf(proc[p].plugin) IN
       proc' = [proc EXCEPT
           ![p].events = Append(@, Event("TypeAssert", ok)),
           ![p].err = IF ok THEN NoError
                      ELSE "invalid config type for " \o ProductOf(proc[p].plugin),
           ![p].pc = IF ok THEN "validate" ELSE "connect_ret"]
    /\ UNCHANGED <<serveVars, connVars, configVars, registryVars, driverVars, storeVars, apiVars>>

\* Connect going on to open the client whatever Validate returned.
ConnectValidateIgnored(p) ==
    /\ proc[p].pc = "validate"
    /\ LET r == Validate(proc[p].config) IN
       proc' = [proc EXCEPT
           ![p].events = Append(@, Event("Validate", r.err = NoError)),
           ![p].config = r.cfg,
           ![p].pc = "open"]
    /\ UNCHANGED <<serveVars, connVars, configVars, registryVars, driverVars, storeVars, apiVars>>

\* Connect: if err := cfg.Validate(); err != nil { return nil, ... }
ConnectValidate(p) ==
    /\ proc[p].pc = "validate"
    /\ LET r == Validate(proc[p].config) IN
       proc' = [proc EXCEPT
           ![p].events = Append(@, Event("Validate", r.err = NoError)),
           ![p].config = r.cfg,
           ![p].err = IF r.err = NoError THEN NoError
                      ELSE "invalid " \o ProductOf(proc[p].plugin) \o " config: " \o r.err,
           ![p].pc = IF r.err = NoError THEN "open" ELSE "connect_ret"]
    /\ UNCHANGED <<serveVars, connVars, configVars, registryVars, driverVars, storeVars, apiVars>>

\* The events of opening the driver client: PostgreSQL formats the DSN first.
OpenEvents(t, ok) ==
    IF t = DataSourceTypePostgreSQL
    THEN <<Event("GetConnectionString", TRUE), Event("Open", ok)>>
    ELSE <<Event("Open", ok)>>

\* Connect: sql.Open / clickhouse.Open, which build the client from the
\* connection string or the options and do not dial: the driver accepts or
\* rejects them, wherever the host is.
ConnectOpen(p) ==
    /\ proc[p].pc = "open"
    /\ \E ok \in BOOLEAN :
         IF ok
         THEN /\ handles' = Append(handles, "open")
              /\ proc' = [proc EXCEPT
                     ![p].events = @ \o OpenEvents(proc[p].plugin, TRUE),
                     ![p].db = Len(handles) + 1,
                     ![p].opened = @ \cup {Len(handles) + 1},
                     ![p].pc = "ping"]
         ELSE /\ handles' = handles
              /\ proc' = [proc EXCEPT
                     ![p].events = @ \o OpenEvents(proc[p].plugin, FALSE),
                     ![p].err = "failed to open " \o ProductOf(proc[p].plugin)
                                  \o " connection",
                     ![p].pc = "connect_ret"]
    /\ UNCHANGED <<serveVars, connVars, configVars, registryVars, storeVars, apiVars>>

\* Connect pinging a second time when the first ping failed.
ConnectPingRetrying(p) ==
    /\ proc[p].pc = "ping"
    /\ \E ok \in BOOLEAN :
         /\ ok => proc[p].reachable
         /\ proc' = [proc EXCEPT
                ![p].events = Append(@, Event("Ping", ok)),
                ![p].conn = IF ok THEN proc[p].db ELSE 0,
                ![p].pc = IF ok THEN "connect_ret"
                          ELSE IF \E i \in 1..Len(proc[p].events) :
                                     proc[p].events[i] = Event("Ping", FALSE)
                          THEN "ping_failed" ELSE "ping"]
    /\ UNCHANGED <<serveVars, connVars, configVars, registryVars, driverVars, storeVars, apiVars>>

\* Connect: db.PingContext(ctx) / conn.Ping(ctx), which dials the server: it
\* fails when the host cannot be reached, and may fail when it can.  On
\* success Connect returns the Connection wrapping the client.
ConnectPing(p) ==
    /\ proc[p].pc = "ping"
    /\ \E ok \in BOOLEAN :
         /\ ok => proc[p].reachable
         /\ proc' = [proc EXCEPT
                ![p].events = Append(@, Event("Ping", ok)),
                ![p].conn = IF ok THEN proc[p].db ELSE 0,
                ![p].pc = IF ok THEN "connect_ret" ELSE "ping_failed"]
    /\ UNCHANGED <<serveVars, connVars, configVars, registryVars, driverVars, storeVars, apiVars>>

\* The ping-failure path of Connect without its db.Close().
ConnectPingFailedNoClose(p) ==
    /\ proc[p].pc = "ping_failed"
    /\ proc' = [proc EXCEPT
           ![p].err = "failed to ping " \o ProductOf(proc[p].plugin),
           ![p].pc = "connect_ret"]
    /\ UNCHANGED <<serveVars, connVars, configVars, registryVars, driverVars, storeVars, apiVars>>

\* Connect, ping failed: db.Close(); return nil, "failed to ping ..."
ConnectPingFailed(p) ==
    /\ proc[p].pc = "ping_failed"
    /\ handles' = [handles EXCEPT ![proc[p].db] = "closed"]
    /\ proc' = [proc EXCEPT
           ![p].events = Append(@, Event("Close", TRUE)),
           ![p].err = "failed to ping " \o ProductOf(proc[p].plugin),
           ![p].pc = "connect_ret"]
    /\ UNCHANGED <<serveVars, connVars, configVars, registryVars, storeVars, apiVars>>

\* Close releasing the client again when it is closed already.
ConnectionCloseReleasesAgain(h, conn) ==
    IF conn # 0
    THEN [h EXCEPT ![conn] = IF @ = "open" THEN "closed" ELSE "released twice"]
    ELSE h

\* (*Connection).Close: if c.db != nil { return c.db.Close() }, and the
\* same on c.conn; Close of a closed client changes nothing and returns nil.
ConnectionClose(h, conn) ==
    IF conn # 0 THEN [h EXCEPT ![conn] = "closed"] ELSE h

\* The caller of Connect closes the Connection it was given.
CallerClose(p) ==
    /\ proc[p].op = "Connect"
    /\ proc[p].pc = "connect_ret"
    /\ proc[p].conn # 0
    /\ handles[proc[p].conn] = "open"
    /\ handles' = ConnectionClose(handles, proc[p].conn)
    /\ proc' = [proc EXCEPT ![p].events = Append(@, Event("Close", TRUE))]
    /\ UNCHANGED <<serveVars, connVars, configVars, registryVars, storeVars, apiVars>>

\* The caller of Connect calls Close on the Connection again.
CallerCloseAgain(p) ==
    /\ proc[p].op = "Connect"
    /\ proc[p].pc = "connect_ret"
    /\ proc[p].conn # 0
    /\ handles[proc[p].conn] # "open"
    /\ Cardinality({ i \in 1..Len(proc[p].events) : proc[p].events[i].e = "Close" })
          < MaxCloses
    /\ handles' = ConnectionClose(handles, proc[p].conn)
    /\ proc' = [proc EXCEPT ![p].events = Append(@, Event("Close", TRUE))]
    /\ UNCHANGED <<serveVars, connVars, configVars, registryVars, storeVars, apiVars>>

\* TestConnection handing the Connect error back as its own error.
TestConnectionConnectedPropagates(p) ==
    /\ proc[p].op = "TestConnection"
    /\ proc[p].pc = "connect_ret"
    /\ proc' = [proc EXCEPT
           ![p].retErr = proc[p].err,
           ![p].pc = IF proc[p].err # NoError THEN "tc_ret" ELSE "tc_ping"]
    /\ UNCHANGED <<serveVars, connVars, configVars, registryVars, driverVars, storeVars, apiVars>>

\* TestConnection: conn, err := p.Connect(...); if err != nil { return
\* &ConnectionTestResult{IsConnected: false, Message: err.Error()}, nil }
\* otherwise defer conn.Close() and go on to the ping.
TestConnectionConnected(p) ==
    /\ proc[p].op = "TestConnection"
    /\ proc[p].pc = "connect_ret"
    /\ proc' = [proc EXCEPT
           ![p].result = IF proc[p].err # NoError
                         THEN [IsConnected |-> FALSE, Message |-> proc[p].err,
                               Latency |-> 0, isNil |-> FALSE]
                         ELSE @,
           ![p].retErr = NoError,
           ![p].pc = IF proc[p].err # NoError THEN "tc_ret" ELSE "tc_ping"]
    /\ UNCHANGED <<serveVars, connVars, configVars, registryVars, driverVars, storeVars, apiVars>>

\* TestConnection: if err := conn.Ping(ctx); err != nil { return {false,
\* "ping failed: ..."}, nil }; latency := time.Since(start).Milliseconds();
\* return {true, "Connection successful", latency}, nil
TestConnectionPing(p) ==
    /\ proc[p].pc = "tc_ping"
    /\ \E ok \in BOOLEAN, since \in Durations :
         /\ ok => proc[p].reachable
         /\ ~ok => since = Millisecond
         /\ proc' = [proc EXCEPT
                ![p].events = Append(@, Event("Ping", ok)),
                ![p].result = [IsConnected |-> ok,
                               Message |-> IF ok THEN "Connection successful"
                                           ELSE "ping failed",
                               Latency |-> IF ok THEN Milliseconds(since) ELSE 0,
                               isNil |-> FALSE],
                ![p].retErr = NoError,
                ![p].pc = "tc_defer"]
    /\ UNCHANGED <<serveVars, connVars, configVars, registryVars, driverVars, storeVars, apiVars>>

\* TestConnection returning without the deferred Close.
TestConnectionDeferNoClose(p) ==
    /\ proc[p].pc = "tc_defer"
    /\ proc' = [proc EXCEPT ![p].pc = "tc_ret"]
    /\ UNCHANGED <<serveVars, connVars, configVars, registryVars, driverVars, storeVars, apiVars>>

\* TestConnection: the deferred conn.Close() runs as the function returns.
TestConnectionDefer(p) ==
    /\ proc[p].pc = "tc_defer"
    /\ handles' = ConnectionClose(handles, proc[p].conn)
    /\ proc' = [proc EXCEPT
           ![p].events = Append(@, Event("Close", TRUE)),
           ![p].pc = "tc_ret"]
    /\ UNCHANGED <<serveVars, connVars, configVars, registryVars, storeVars, apiVars>>

\* The caller is done with the call's outcome.
CallDone(p) ==
    /\ \/ proc[p].op = "Connect" /\ proc[p].pc = "connect_ret"
       \/ proc[p].op = "TestConnection" /\ proc[p].pc = "tc_ret"
    /\ proc' = [proc EXCEPT ![p] = IdleProc]
    /\ UNCHANGED <<serveVars, connVars, configVars, registryVars, driverVars, storeVars, apiVars>>

-----------------------------------------------------------------------------
(* store.MetadataStore: the datasources table behind gorm.                 *)

MaxClock == 2

\* encoding/json writes the members of a map in sorted key order.
KeyOrder == <<"host", "path", "port">>

MapKeys(m) == { kv[1] : kv \in m }

\* json.Marshal(map[string]interface{}): the members, sorted by key.
Marshal(m) ==
    LET ks == SelectSeq(KeyOrder, LAMBDA k : k \in MapKeys(m)) IN
    [json |-> [i \in 1..Len(ks) |-> CHOOSE kv \in m : kv[1] = ks[i]]]

NilMap == [kind |-> "nilmap"]
MapValue(m) == [kind |-> "map", m |-> m]

\* A row of the table: models.DataSource without the unstored TestResult.
Row(id, name, type, config) ==
    [ID |-> id, Name |-> name, Type |-> type, Config |-> config,
     Description |-> "", Tags |-> <<>>, IsActive |-> TRUE,
     CreatedAt |-> 0, UpdatedAt |-> 0, CreatedBy |-> "admin"]

EmptyStore == [i \in {} |-> NoRow]

\* What the table may hold when the server opens it: rows written by
\* earlier runs, any of them consistent with the schema (unique name).
InitialStores ==
    LET a == Row(1, "a", DataSourceTypePostgreSQL, Marshal({<<"host", "localhost">>}))
        b == Row(2, "b", DataSourceTypeSQLite, Marshal({<<"path", "/data/app.db">>}))
        c == Row(2, "c", DataSourceTypeClickHouse, Marshal({}))
    IN { EmptyStore,
         [i \in {1} |-> a],
         [i \in {1, 2} |-> IF i = 1 THEN a ELSE b],
         [i \in {1, 2} |-> IF i = 1 THEN a ELSE c] }

\* The uniqueIndex on name: another row already carries ds.Name.
NameTaken(st, ds) ==
    \E i \in DOMAIN st : i # ds.ID /\ st[i].Name = ds.Name

\* INSERT of ds under the key id at time t.  gorm replaces a zero IsActive
\* by the column default (default:true) and fills zero timestamps.
Insert(st, id, t, ds) ==
    LET row == [ds EXCEPT !.ID = id, !.IsActive = TRUE,
                          !.CreatedAt = IF ds.CreatedAt = 0 THEN t ELSE @,
                          !.UpdatedAt = t]
    IN [i \in (DOMAIN st) \cup {id} |-> IF i = id THEN row ELSE st[i]]

\* (*MetadataStore).CreateDataSource: db.Create(ds)
StoreCreateDataSource(st, nid, t, ds) ==
    IF NameTaken(st, [ds EXCEPT !.ID = nid])
    THEN [err |-> "UNIQUE constraint failed: data_sources.name", store |-> st, nextID |-> nid]
    ELSE [err |-> NoError, store |-> Insert(st, nid, t, ds), nextID |-> nid + 1]

\* (*MetadataStore).GetDataSource: db.First(&ds, id)
StoreGetDataSource(st, id) ==
    IF id \in DOMAIN st THEN [err |-> NoError, ds |-> st[id]]
    ELSE [err |-> "record not found", ds |-> NoRow]

\* Save against a table whose name column has no unique index.
StoreUpdateDataSourceNoIndex(st, t, ds) ==
    IF ds.ID \in DOMAIN st
    THEN [err |-> NoError, store |-> [st EXCEPT ![ds.ID] = [ds EXCEPT !.UpdatedAt = t]]]
    ELSE [err |-> NoError, store |-> Insert(st, ds.ID, t, ds)]

\* (*MetadataStore).UpdateDataSource: db.Save(ds).  Save writes every column
\* of the row with ds.ID and stamps UpdatedAt; when no row has that ID it
\* inserts ds under its ID instead.
StoreUpdateDataSource(st, t, ds) ==
    IF NameTaken(st, ds)
    THEN [err |-> "UNIQUE constraint failed: data_sources.name", store |-> st]
    ELSE IF ds.ID \in DOMAIN st
    THEN [err |-> NoError, store |-> [st EXCEPT ![ds.ID] = [ds EXCEPT !.UpdatedAt = t]]]
    ELSE [err |-> NoError, store |-> Insert(st, ds.ID, t, ds)]

\* (*MetadataStore).DeleteDataSource: db.Delete(&models.DataSource{}, id)
StoreDeleteDataSource(st, id) ==
    [err |-> NoError, store |-> [i \in (DOMAIN st) \ {id} |-> st[i]]]

\* What database/sql answers to a statement on a *sql.DB that was closed.
ErrDBClosed == "sql: database is closed"

\* (*MetadataStore).Close has run: runServe's deferred call closes the
\* *sql.DB when runServe returns.
StoreClosed == phase = "closed"

\* (*MetadataStore).GetDataSourceStats, "Total count": SELECT count(*).
CountTotal(st) == Cardinality(DOMAIN st)

\* (*MetadataStore).GetDataSourceStats, "Active count":
\* SELECT count(*) WHERE is_active = true.
CountActive(st) == Cardinality({ i \in DOMAIN st : st[i].IsActive })

\* (*MetadataStore).GetDataSourceStats, "Count by type":
\* SELECT type, count(*) GROUP BY type, put into a map keyed by type.
CountByType(st) ==
    [t \in { st[i].Type : i \in DOMAIN st } |->
        Cardinality({ i \in DOMAIN st : st[i].Type = t })]

-----------------------------------------------------------------------------
(* The serve command and the datasource API handlers.                      *)

\* (*DataSourceService).InitializePlugins: ClickHouse, then PostgreSQL.
InitializePlugins(r) ==
    Register(Register(r, [type |-> DataSourceTypeClickHouse, inst |-> 1]),
             [type |-> DataSourceTypePostgreSQL, inst |-> 1])

NoResp ==
    [op |-> "none", id |-> 0, req |-> NoReq, status |-> 0,
     before |-> EmptyStore, ds |-> NoRow]

Malformed == [kind |-> "malformed"]

\* The bodies clients send to POST /datasources.
CreateRequests ==
    LET body(name, type, config) ==
            [kind |-> "create", Name |-> name, Type |-> type, Config |-> config,
             Description |-> "", Tags |-> <<>>, CreatedBy |-> "admin"]
    IN { body("c", DataSourceTypePostgreSQL, MapValue({<<"host", "localhost">>})),
         body("a", DataSourceTypePostgreSQL, MapValue({<<"host", "localhost">>})),
         body("c", DataSourceTypeSQLite, MapValue({<<"path", "/data/app.db">>})),
         body("c", DataSourceTypePostgreSQL, NilMap) }

\* The bodies clients send to PUT /datasources/:id: has is the set of
\* members present in the JSON object.
UpdateFieldSets ==
    { {"name"}, {"description"}, {"tags", "is_active", "config"} }

UpdateRequests ==
    { [kind |-> "update", has |-> h, Name |-> n, Description |-> "d2",
       Tags |-> <<"t2">>, IsActive |-> FALSE,
       Config |-> MapValue({<<"path", "/data/app.db">>})] :
      h \in UpdateFieldSets, n \in {"b"} }

IdParams == {"1", "2", "abc"}

\* strconv.ParseUint(c.Param("id"), 10, 32)
ParseUint(s) ==
    CASE s = "1" -> [ok |-> TRUE, n |-> 1]
      [] s = "2" -> [ok |-> TRUE, n |-> 2]
      [] OTHER   -> [ok |-> FALSE, n |-> 0]

StatusOK                  == 200
StatusCreated             == 201
StatusNoContent           == 204
StatusBadRequest          == 400
StatusNotFound            == 404
StatusInternalServerError == 500

\* c.ShouldBindJSON(&req) for CreateDataSourceRequest: the body parses and
\* the binding:"required" members are present.
BindCreate(req) ==
    /\ req # Malformed
    /\ req.Name # ""
    /\ req.Type # ""
    /\ req.Config # NilMap

\* CreateDataSource up to its response: the status and the table after it.
CreateOutcome(st, nid, t, reg, req) ==
    LET unchanged(status) == [status |-> status, store |-> st, nextID |-> nid] IN
    IF ~BindCreate(req) THEN unchanged(StatusBadRequest)
    ELSE LET g == Get(reg, req.Type) IN
    IF ~g.found THEN unchanged(StatusBadRequest)
    ELSE IF ValidateConfig(GetType(g.plugin), req.Config).err # NoError
    THEN unchanged(StatusBadRequest)
    ELSE LET ds == [ID |-> 0, Name |-> req.Name, Type |-> req.Type,
                    Config |-> Marshal(req.Config.m),
                    Description |-> req.Description, Tags |-> req.Tags,
                    IsActive |-> TRUE, CreatedAt |-> 0, UpdatedAt |-> 0,
                    CreatedBy |-> req.CreatedBy]
             c == StoreCreateDataSource(st, nid, t, ds)
         IN IF c.err # NoError THEN unchanged(StatusInternalServerError)
            ELSE [status |-> StatusCreated, store |-> c.store, nextID |-> c.nextID]

\* UpdateDataSource, "Update fields": the members present overwrite ds.
ApplyFields(ds, req) ==
    [ds EXCEPT
        !.Name        = IF "name" \in req.has THEN req.Name ELSE @,
        !.Description = IF "description" \in req.has THEN req.Description ELSE @,
        !.Tags        = IF "tags" \in req.has THEN req.Tags ELSE @,
        !.IsActive    = IF "is_active" \in req.has THEN req.IsActive ELSE @]

\* UpdateDataSource from its start to the call of store.UpdateDataSource:
\* status 0 means the handler goes on to save ds.
UpdateOutcome(st, reg, idParam, req) ==
    LET id == ParseUint(idParam)
        answer(status) == [status |-> status, ds |-> NoRow]
    IN
    IF ~id.ok THEN answer(StatusBadRequest)
    ELSE IF req = Malformed THEN answer(StatusBadRequest)
    ELSE LET g == StoreGetDataSource(st, id.n) IN
    IF g.err # NoError THEN answer(StatusNotFound)
    ELSE LET ds == ApplyFields(g.ds, req) IN
    IF "config" \notin req.has THEN [status |-> 0, ds |-> ds]
    ELSE LET pl == Get(reg, ds.Type) IN
    IF pl.found /\ ValidateConfig(GetType(pl.plugin), req.Config).err # NoError
    THEN answer(StatusBadRequest)
    ELSE [status |-> 0, ds |-> [ds EXCEPT !.Config = Marshal(req.Config.m)]]

ServeInit ==
    /\ store \in InitialStores
    /\ nextID = Cardinality(DOMAIN store) + 1
    /\ now = 0
    /\ phase = "init"
    /\ resp = NoResp

\* runServe starting the server with one plugin registered and registering
\* the other while requests are served.
StartupRegistersWhileServing ==
    /\ \/ /\ phase = "init"
          /\ plugins' = Register(NewRegistry, [type |-> DataSourceTypeClickHouse, inst |-> 1])
          /\ regLog' = <<[type |-> DataSourceTypeClickHouse, inst |-> 1]>>
          /\ phase' = "serving"
       \/ /\ phase = "serving"
          /\ DataSourceTypePostgreSQL \notin DOMAIN plugins
          /\ plugins' = Register(plugins, [type |-> DataSourceTypePostgreSQL, inst |-> 1])
          /\ regLog' = Append(regLog, [type |-> DataSourceTypePostgreSQL, inst |-> 1])
          /\ phase' = phase
    /\ UNCHANGED <<serveVars, connVars, getRes, listed, types, configVars, driverVars, storeVars, proc, resp>>

\* runServe up to srv.ListenAndServe: the registry is built and filled.
Startup ==
    /\ phase = "init"
    /\ plugins' = InitializePlugins(NewRegistry)
    /\ regLog' = <<[type |-> DataSourceTypeClickHouse, inst |-> 1],
                   [type |-> DataSourceTypePostgreSQL, inst |-> 1]>>
    /\ phase' = "serving"
    /\ UNCHANGED <<serveVars, connVars, getRes, listed, types, configVars, driverVars, storeVars, proc, resp>>

\* POST /api/v1/datasources
CreateDataSource(req) ==
    /\ phase = "serving"
    /\ resp = NoResp
    /\ LET o == CreateOutcome(store, nextID, now + 1, plugins, req) IN
         /\ o.store # store => now < MaxClock
         /\ store' = o.store
         /\ nextID' = o.nextID
         /\ now' = IF o.store # store THEN now + 1 ELSE now
         /\ resp' = [op |-> "Create", id |-> nextID, req |-> req,
                     status |-> o.status, before |-> store, ds |-> NoRow]
    /\ UNCHANGED <<serveVars, connVars, configVars, registryVars, driverVars, proc, phase>>

\* The update handler saving the fields it has applied before it validates
\* the config.
UpdateDataSourceReadSavesFirst(p, idParam, req) ==
    /\ phase = "serving"
    /\ resp = NoResp
    /\ proc[p].op = "idle"
    /\ LET o == UpdateOutcome(store, plugins, idParam, req)
           g == StoreGetDataSource(store, ParseUint(idParam).n)
       IN
         IF o.status # 0
         THEN /\ resp' = [op |-> "Update", id |-> ParseUint(idParam).n, req |-> req,
                          status |-> o.status, before |-> store, ds |-> NoRow]
              /\ proc' = proc
              /\ store' = IF o.status = StatusBadRequest /\ req # Malformed
                             /\ g.err = NoError
                          THEN StoreUpdateDataSource(store, now, ApplyFields(g.ds, req)).store
                          ELSE store
         ELSE /\ proc' = [proc EXCEPT ![p] =
                     [IdleProc EXCEPT !.op = "Update", !.pc = "save",
                                      !.req = req, !.ds = o.ds]]
              /\ resp' = resp
              /\ store' = store
    /\ UNCHANGED <<serveVars, connVars, configVars, registryVars, driverVars, nextID, now, phase>>

\* PUT /api/v1/datasources/:id, from the start of the handler to the call
\* of store.UpdateDataSource.
UpdateDataSourceRead(p, idParam, req) ==
    /\ phase = "serving"
    /\ resp = NoResp
    /\ proc[p].op = "idle"
    /\ LET o == UpdateOutcome(store, plugins, idParam, req) IN
         IF o.status # 0
         THEN /\ resp' = [op |-> "Update", id |-> ParseUint(idParam).n, req |-> req,
                          status |-> o.status, before |-> store, ds |-> NoRow]
              /\ proc' = proc
         ELSE /\ proc' = [proc EXCEPT ![p] =
                     [IdleProc EXCEPT !.op = "Update", !.pc = "save",
                                      !.req = req, !.ds = o.ds]]
              /\ resp' = resp
    /\ UNCHANGED <<serveVars, connVars, configVars, registryVars, driverVars, storeVars, phase>>

\* PUT /api/v1/datasources/:id, store.UpdateDataSource(ds) and the response.
UpdateDataSourceSave(p) ==
    /\ phase # "exited"
    /\ resp = NoResp
    /\ proc[p].op = "Update"
    /\ proc[p].pc = "save"
    /\ LET u == IF StoreClosed THEN [err |-> ErrDBClosed, store |-> store]
                ELSE StoreUpdateDataSource(store, now + 1, proc[p].ds) IN
         /\ u.err = NoError => now < MaxClock
         /\ store' = u.store
         /\ now' = IF u.err = NoError THEN now + 1 ELSE now
         /\ resp' = [op |-> "Update", id |-> proc[p].ds.ID, req |-> proc[p].req,
                     status |-> IF u.err = NoError THEN StatusOK
                                ELSE StatusInternalServerError,
                     before |-> store, ds |-> proc[p].ds]
    /\ proc' = [proc EXCEPT ![p] = IdleProc]
    /\ UNCHANGED <<serveVars, connVars, configVars, registryVars, driverVars, nextID, phase>>

\* DELETE /api/v1/datasources/:id
DeleteDataSource(idParam) ==
    /\ phase = "serving"
    /\ resp = NoResp
    /\ LET id == ParseUint(idParam) IN
         IF ~id.ok
         THEN /\ store' = store
              /\ resp' = [op |-> "Delete", id |-> 0, req |-> NoReq,
                          status |-> StatusBadRequest, before |-> store, ds |-> NoRow]
         ELSE /\ store' = StoreDeleteDataSource(store, id.n).store
              /\ resp' = [op |-> "Delete", id |-> id.n, req |-> NoReq,
                          status |-> StatusNoContent, before |-> store, ds |-> NoRow]
    /\ UNCHANGED <<serveVars, connVars, configVars, registryVars, driverVars, nextID, now, proc, phase>>

\* GET /api/v1/datasource-stats, store.GetDataSourceStats up to its first
\* query: the total count.
GetDataSourceStatsTotal(p) ==
    /\ phase = "serving"
    /\ resp = NoResp
    /\ proc[p].op = "idle"
    /\ proc' = [proc EXCEPT ![p] =
            [IdleProc EXCEPT !.op = "Stats", !.pc = "active",
                             !.stats = [NoStats EXCEPT !.TotalCount = CountTotal(store)]]]
    /\ UNCHANGED <<serveVars, connVars, configVars, registryVars, driverVars, storeVars, apiVars>>

\* store.GetDataSourceStats, second query: the active count.
GetDataSourceStatsActive(p) ==
    /\ phase # "exited"
    /\ proc[p].op = "Stats"
    /\ proc[p].pc = "active"
    /\ IF StoreClosed
       THEN /\ resp = NoResp
            /\ resp' = [op |-> "Stats", id |-> 0, req |-> NoReq,
                        status |-> StatusInternalServerError,
                        before |-> store, ds |-> NoRow, stats |-> NoStats]
            /\ proc' = [proc EXCEPT ![p] = IdleProc]
       ELSE /\ resp' = resp
            /\ proc' = [proc EXCEPT ![p].pc = "by_type",
                                    ![p].stats.ActiveCount = CountActive(store)]
    /\ UNCHANGED <<serveVars, connVars, configVars, registryVars, driverVars, storeVars, phase>>

\* store.GetDataSourceStats, third query and return: the counts by type,
\* and the handler's response with the three results.
GetDataSourceStatsByType(p) ==
    /\ phase # "exited"
    /\ resp = NoResp
    /\ proc[p].op = "Stats"
    /\ proc[p].pc = "by_type"
    /\ resp' = IF StoreClosed
               THEN [op |-> "Stats", id |-> 0, req |-> NoReq,
                     status |-> StatusInternalServerError,
                     before |-> store, ds |-> NoRow, stats |-> NoStats]
               ELSE [op |-> "Stats", id |-> 0, req |-> NoReq, status |-> StatusOK,
                     before |-> store, ds |-> NoRow,
                     stats |-> [proc[p].stats EXCEPT !.CountByType = CountByType(store)]]
    /\ proc' = [proc EXCEPT ![p] = IdleProc]
    /\ UNCHANGED <<serveVars, connVars, configVars, registryVars, driverVars, storeVars, phase>>

\* The value of member k of the JSON object j, or dflt if j has no such
\* member.
JsonField(j, k, dflt) ==
    IF \E i \in DOMAIN j.json : j.json[i][1] = k
    THEN LET i == CHOOSE i \in DOMAIN j.json : j.json[i][1] = k IN j.json[i][2]
    ELSE dflt

\* json.Unmarshal(ds.Config, config) into the zero value of the variant the
\* handler picked for the type: a field is set from the member its json tag
\* names and keeps its zero value otherwise.
Unmarshal(j, t) ==
    CASE t = DataSourceTypeClickHouse ->
           [kind |-> "ClickHouseConfig", Host |-> JsonField(j, "host", ""),
            Port |-> JsonField(j, "port", 0), Secure |-> JsonField(j, "secure", FALSE)]
      [] t = DataSourceTypePostgreSQL ->
           [kind |-> "PostgreSQLConfig", Host |-> JsonField(j, "host", ""),
            Port |-> JsonField(j, "port", 0), SSLMode |-> JsonField(j, "ssl_mode", "")]
      [] t = DataSourceTypeSQLite ->
           [kind |-> "SQLiteConfig", Path |-> JsonField(j, "path", "")]
      [] t = DataSourceTypeOpenSearch ->
           [kind |-> "OpenSearchConfig", URLs |-> JsonField(j, "urls", <<>>)]

\* POST /api/v1/datasources/:id/test, from the start of the handler to its
\* call of plugin.TestConnection(ctx, config).
TestDataSource(p, idParam) ==
    /\ phase = "serving"
    /\ resp = NoResp
    /\ proc[p].op = "idle"
    /\ Len(handles) < MaxHandles
    /\ LET id  == ParseUint(idParam)
           got == StoreGetDataSource(store, id.n)
           pl  == Get(plugins, got.ds.Type)
           answer(n, status) ==
               /\ resp' = [op |-> "Test", id |-> n, req |-> NoReq, status |-> status,
                           before |-> store, ds |-> NoRow]
               /\ proc' = proc
       IN IF ~id.ok THEN answer(0, StatusBadRequest)
          ELSE IF got.err # NoError THEN answer(id.n, StatusNotFound)
          ELSE IF ~pl.found THEN answer(id.n, StatusInternalServerError)
          ELSE IF got.ds.Type \notin DataSourceTypes THEN answer(id.n, StatusBadRequest)
          ELSE /\ proc' = [proc EXCEPT ![p] =
                      [IdleProc EXCEPT !.op = "TestConnection", !.pc = "assert",
                                       !.plugin = GetType(pl.plugin),
                                       !.config = Unmarshal(got.ds.Config, got.ds.Type),
                                       !.ds = got.ds]]
               /\ resp' = resp
    /\ UNCHANGED <<serveVars, connVars, configVars, registryVars, driverVars, storeVars, phase>>

\* POST /api/v1/datasources/:id/test, after plugin.TestConnection returned:
\* an error becomes a failed result, and the result goes out with 200.
TestDataSourceRespond(p) ==
    /\ resp = NoResp
    /\ proc[p].op = "TestConnection"
    /\ proc[p].pc = "tc_ret"
    /\ resp' = [op |-> "Test", id |-> proc[p].ds.ID, req |-> NoReq,
                status |-> StatusOK, before |-> store, ds |-> NoRow,
                result |-> IF proc[p].retErr # NoError
                           THEN [IsConnected |-> FALSE, Message |-> proc[p].retErr,
                                 Latency |-> 0, isNil |-> FALSE]
                           ELSE proc[p].result]
    /\ proc' = [proc EXCEPT ![p] = IdleProc]
    /\ UNCHANGED <<serveVars, connVars, configVars, registryVars, driverVars, storeVars, phase>>

\* A handler has been entered and has not returned: it has steps to take or
\* its response is being written.
HandlersInFlight == (\E p \in Procs : proc[p].op # "idle") \/ resp # NoResp

\* runServe: a signal arrives on quit and srv.Shutdown(ctx) closes the
\* listeners.  No new request is accepted; the handlers in flight go on.
Interrupt ==
    /\ phase = "serving"
    /\ phase' = "shutdown"
    /\ UNCHANGED <<serveVars, connVars, configVars, registryVars, driverVars, storeVars, proc, resp>>

\* srv.Shutdown returns nil, every connection having become idle; runServe
\* returns nil and its deferred metadataStore.Close() runs.
ShutdownClean ==
    /\ phase = "shutdown"
    /\ ~HandlersInFlight
    /\ phase' = "closed"
    /\ UNCHANGED <<serveVars, connVars, configVars, registryVars, driverVars, storeVars, proc, resp>>

\* The 30 seconds of ctx pass with a handler in flight: srv.Shutdown returns
\* the context's error and leaves the active connections alone, runServe
\* returns the error and its deferred metadataStore.Close() runs.
ShutdownForced ==
    /\ phase = "shutdown"
    /\ HandlersInFlight
    /\ phase' = "closed"
    /\ UNCHANGED <<serveVars, connVars, configVars, registryVars, driverVars, storeVars, proc, resp>>

\* Execute returns from rootCmd.Execute() and main ends (os.Exit(1) after
\* an error): the process and its handler goroutines are gone.
ProcessExit ==
    /\ phase = "closed"
    /\ phase' = "exited"
    /\ UNCHANGED <<serveVars, connVars, configVars, registryVars, driverVars, storeVars, proc, resp>>

\* c.JSON(status, ...): the response in resp has gone out to the client.
\* resp holds one response at a time, so the next handler step that answers
\* or writes the table is taken after this one.
ResponseSent ==
    /\ resp # NoResp
    /\ resp' = NoResp
    /\ UNCHANGED <<serveVars, connVars, configVars, registryVars, driverVars, storeVars, proc, phase>>

-----------------------------------------------------------------------------
(* The serve command's configuration: config.InitViper, the --host and     *)
(* --port flags, and the http.Server runServe starts.  The settings viper  *)
(* holds are a map from lower-case dotted keys to values.                  *)

\* The value under key k in the settings m, or dflt.
Setting(m, k, dflt) ==
    IF \E kv \in m : kv[1] = k
    THEN (CHOOSE kv \in m : kv[1] = k)[2]
    ELSE dflt

\* What config.toml may say, one value per key at most; no file is the
\* empty map.
FileEntries ==
    { <<"server.host", "127.0.0.1">>,
      <<"server.port", 0>>, <<"server.port", 80>>,
      <<"server.port", 65535>>, <<"server.port", 65536>>,
      <<"metadata_store.type", "mysql">>,
      <<"metadata_store.connectionurl", "./data/explorer.db">>,
      <<"logging.level", "debug">>, <<"logging.level", "verbose">> }

ConfigFiles ==
    { m \in SUBSET FileEntries :
        \A a \in m, b \in m : a[1] = b[1] => a = b }

\* setDefaults: the settings that have a default and are validated.
setDefaults ==
    { <<"server.host", "localhost">>, <<"server.port", 8080>>,
      <<"metadata_store.type", "sqlite">>,
      <<"metadata_store.connection_url", "./data/explorer.db">>,
      <<"logging.level", "info">>, <<"logging.format", "text">> }

\* viper's settings after ReadInConfig: a key of the file overrides the
\* default under the same key.
AllSettings(file) ==
    file \cup { kv \in setDefaults : ~ \E f \in file : f[1] = kv[1] }

\* v.Unmarshal(&config).  ViperConfig names its sections with mapstructure
\* tags; the fields of a section carry toml tags only, so mapstructure sets
\* a field from the key that equals the field's name without regard to
\* case: ConnectionURL from "connectionurl", and from nothing else.
ViperUnmarshal(m) ==
    [kind |-> "ViperConfig",
     Server |-> [Host |-> Setting(m, "server.host", ""),
                 Port |-> Setting(m, "server.port", 0)],
     MetadataStore |-> [Type |-> Setting(m, "metadata_store.type", ""),
                        ConnectionURL |-> Setting(m, "metadata_store.connectionurl", "")],
     Logging |-> [Level |-> Setting(m, "logging.level", ""),
                  Format |-> Setting(m, "logging.format", "")]]

\* (*ViperConfig).Validate: the message of the error, NoError for nil.
ViperConfigValidate(c) ==
    IF c.Server.Port <= 0 \/ c.Server.Port > 65535
    THEN "invalid server port"
    ELSE IF c.MetadataStore.Type = ""
    THEN "metadata store type is required"
    ELSE IF c.MetadataStore.Type # "sqlite" /\ c.MetadataStore.Type # "postgresql"
    THEN "unsupported metadata store type"
    ELSE IF c.MetadataStore.ConnectionURL = ""
    THEN "metadata store connection URL is required"
    ELSE IF c.Logging.Level \notin {"debug", "info", "warn", "error"}
    THEN "invalid log level"
    ELSE IF c.Logging.Format \notin {"json", "text"}
    THEN "invalid log format"
    ELSE NoError

\* config.InitViper up to its return: (config, nil) or (nil, err).
InitViper(file) ==
    LET config == ViperUnmarshal(AllSettings(file))
        err == ViperConfigValidate(config)
    IN IF err # NoError THEN [cfg |-> NoConfig, err |-> err]
       ELSE [cfg |-> config, err |-> NoError]

\* The values of --host and --port on the command line; "" and 0 when the
\* flag is not given.
FlagHosts == {"", "0.0.0.0"}
FlagPorts == {0, -1, 443, 70000}

NoServer == [state |-> "none"]

ServeConfigInit ==
    /\ cfg = NoConfig
    /\ srv = NoServer
    /\ rerr = NoError

\* runServe: cfg, err := config.InitViper("config", "")
ServeInitViper(file) ==
    /\ phase = "init"
    /\ cfg = NoConfig
    /\ rerr = NoError
    /\ LET r == InitViper(file) IN
         /\ cfg' = r.cfg
         /\ rerr' = r.err
         /\ phase' = IF r.err # NoError THEN "returned" ELSE "loaded"
    /\ UNCHANGED <<srv, connVars, configVars, registryVars, driverVars, storeVars,
                   proc, resp>>

\* runServe, "Override with command-line flags".
ServeOverrideFlags(host, port) ==
    /\ phase = "loaded"
    /\ cfg' = [cfg EXCEPT !.Server.Host = IF host # "" THEN host ELSE @,
                          !.Server.Port = IF port # 0 THEN port ELSE @]
    /\ phase' = "configured"
    /\ UNCHANGED <<srv, rerr, connVars, configVars, registryVars, driverVars,
                   storeVars, proc, resp>>

\* runServe: store.NewMetadataStore(cfg.MetadataStore); the database opens
\* and migrates, or it does not and runServe returns the error.
ServeNewMetadataStore ==
    /\ phase = "configured"
    /\ \E opened \in BOOLEAN :
         IF cfg.MetadataStore.Type \notin {"sqlite", "postgresql"}
         THEN /\ ~opened
              /\ rerr' = "unsupported metadata store type"
              /\ phase' = "returned"
         ELSE IF ~opened
         THEN /\ rerr' = "failed to connect to metadata store"
              /\ phase' = "returned"
         ELSE /\ rerr' = rerr
              /\ phase' = "store_open"
    /\ UNCHANGED <<cfg, srv, connVars, configVars, registryVars, driverVars,
                   storeVars, proc, resp>>

\* net.Listen("tcp", host:port) can bind the port: it is a TCP port, and
\* free.
CanListen(port, free) == free /\ port \in 0..65535

\* runServe from NewRegistry to srv.ListenAndServe() in its goroutine: the
\* registry is filled, the server is created on cfg.Server.Host and
\* cfg.Server.Port and started; when it cannot listen, log.Fatalf ends the
\* process.
ServeListenAndServe ==
    /\ phase = "store_open"
    /\ plugins' = InitializePlugins(NewRegistry)
    /\ regLog' = <<[type |-> DataSourceTypeClickHouse, inst |-> 1],
                   [type |-> DataSourceTypePostgreSQL, inst |-> 1]>>
    /\ \E free \in BOOLEAN :
         LET listening == CanListen(cfg.Server.Port, free) IN
         /\ srv' = [state |-> IF listening THEN "listening" ELSE "failed",
                    Host |-> cfg.Server.Host, Port |-> cfg.Server.Port]
         /\ phase' = IF listening THEN "serving" ELSE "exited"
    /\ UNCHANGED <<cfg, rerr, connVars, getRes, listed, types, configVars,
                   driverVars, storeVars, proc, resp>>

ServeNext ==
    \/ \E file \in ConfigFiles : ServeInitViper(file)
    \/ \E host \in FlagHosts, port \in FlagPorts : ServeOverrideFlags(host, port)
    \/ ServeNewMetadataStore
    \/ ServeListenAndServe

-----------------------------------------------------------------------------
(* datasource.Connection: Query, GetTables and GetSchema of the PostgreSQL *)
(* and the ClickHouse connection, over the database the connection talks   *)
(* to.  The driver answers a statement with a result set read row by row;  *)
(* it may reject the statement, fail to describe the columns, fail to scan *)
(* a row, or break off the iteration.                                      *)

MaxRows   == 2
MaxFaults == 1

\* The schemas (PostgreSQL) or databases (ClickHouse) of the server and the
\* tables that may be created in them, each list in name order.
SchemaNames == <<"public", "sales">>
TableNames  == <<"t1", "t2">>
TableSlots  == {<<"public", "t1">>, <<"public", "t2">>, <<"sales", "t1">>}

\* A column as the DDL declares it.
ColumnDef(name, type, nullable) == [Name |-> name, Type |-> type, Nullable |-> nullable]

ColumnLists ==
    { <<ColumnDef("id", "integer", FALSE)>>,
      <<ColumnDef("id", "integer", FALSE), ColumnDef("data", "text", TRUE)>> }

\* Values as the driver hands them to Scan(&interface{}): the dynamic type
\* and the content.
String(s) == [t |-> "string", v |-> s]
Bytes(s)  == [t |-> "[]byte", v |-> s]
Int64(n)  == [t |-> "int64", v |-> n]

\* The statements that reach the driver.
SchemasQuery          == [kind |-> "schemas"]
TablesQuery(s)        == [kind |-> "tables", schema |-> s]
ColumnsQuery(s, name) == [kind |-> "columns", schema |-> s, table |-> name]
CreateTable(s, name, cols) ==
    [kind |-> "create", schema |-> s, table |-> name, cols |-> cols]
InsertRow(s, name)  == [kind |-> "insert", schema |-> s, table |-> name]
SelectRows(s, name) == [kind |-> "select", schema |-> s, table |-> name]
MalformedStatement  == [kind |-> "malformed"]

EmptyDatabase(engine) ==
    [engine |-> engine, tables |-> [k \in {} |-> [cols |-> <<>>, rows |-> 0]]]

NoDatabase == EmptyDatabase("none")

\* A text value of the system catalog.  lib/pq hands a value of type name
\* over as []byte; clickhouse-go hands a String over as string.
CatalogName(engine, s) ==
    IF engine = DataSourceTypePostgreSQL THEN Bytes(s) ELSE String(s)

\* The tables of schema s, in name order.
TablesOf(d, s) == SelectSeq(TableNames, LAMBDA name : <<s, name>> \in DOMAIN d.tables)

\* Row k of a table: one value per column.
StoredRow(cols, k) ==
    [i \in 1..Len(cols) |->
        IF cols[i].Type = "integer" THEN Int64(k) ELSE String("v")]

\* What the server answers to a statement: ok is FALSE when it rejects the
\* statement, otherwise the columns and rows of the result set.
ResultSet(d, stmt) ==
    LET none == [ok |-> TRUE, cols |-> <<>>, rows |-> <<>>]
        text(name) == ColumnDef(name, "text", FALSE)
    IN
    CASE stmt.kind = "schemas" ->
           [ok |-> TRUE, cols |-> <<text("schema_name")>>,
            rows |-> [i \in 1..Len(SchemaNames) |->
                        <<CatalogName(d.engine, SchemaNames[i])>>]]
      [] stmt.kind = "tables" ->
           LET ts == TablesOf(d, stmt.schema) IN
           [ok |-> TRUE, cols |-> <<text("table_name"), text("table_type")>>,
            rows |-> [i \in 1..Len(ts) |->
                        <<CatalogName(d.engine, ts[i]),
                          IF d.engine = DataSourceTypePostgreSQL
                          THEN String("BASE TABLE") ELSE String("Memory")>>]]
      [] stmt.kind = "columns" ->
           LET cs == IF <<stmt.schema, stmt.table>> \in DOMAIN d.tables
                     THEN d.tables[<<stmt.schema, stmt.table>>].cols ELSE <<>>
           IN [ok |-> TRUE,
               cols |-> <<text("column_name"), text("data_type"), text("is_nullable")>>,
               rows |-> [i \in 1..Len(cs) |->
                           <<CatalogName(d.engine, cs[i].Name), String(cs[i].Type),
                             String(IF cs[i].Nullable THEN "YES" ELSE "NO")>>]]
      [] stmt.kind = "create" -> none
      [] stmt.kind = "insert" ->
           IF <<stmt.schema, stmt.table>> \in DOMAIN d.tables
           THEN none ELSE [none EXCEPT !.ok = FALSE]
      [] stmt.kind = "select" ->
           IF <<stmt.schema, stmt.table>> \in DOMAIN d.tables
           THEN LET tb == d.tables[<<stmt.schema, stmt.table>>] IN
                [ok |-> TRUE, cols |-> tb.cols,
                 rows |-> [k \in 1..tb.rows |-> StoredRow(tb.cols, k)]]
           ELSE [none EXCEPT !.ok = FALSE]
      [] OTHER -> [none EXCEPT !.ok = FALSE]

\* The database after the server has executed a statement: CREATE TABLE IF
\* NOT EXISTS adds the table, INSERT adds one row.
Execute(d, stmt) ==
    LET key == <<stmt.schema, stmt.table>> IN
    CASE stmt.kind = "create" /\ key \notin DOMAIN d.tables ->
           [d EXCEPT !.tables =
               [k \in (DOMAIN d.tables) \cup {key} |->
                   IF k = key THEN [cols |-> stmt.cols, rows |-> 0] ELSE d.tables[k]]]
      [] stmt.kind = "insert" /\ key \in DOMAIN d.tables ->
           [d EXCEPT !.tables[key].rows = @ + 1]
      [] OTHER -> d

\* The ways a statement can go at the driver.
Modes == {"ok", "rejected", "no column types", "scan fails", "iteration breaks"}

\* What c.db.QueryContext / c.conn.Query and the rows it returns do for a
\* statement that goes the way mode says: err is the error of the call,
\* ctErr that of rows.ColumnTypes() (database/sql only), next the rows
\* rows.Next() steps through, scanErrAt the row whose rows.Scan fails (0 for
\* none) and iterErr whether rows.Err() reports an error after the loop.  A
\* failing scan is that of the last row, a broken iteration ends before it.
DriverQuery(d, stmt, mode) ==
    LET rows(rs) ==
          [err       |-> ~rs.ok \/ mode = "rejected",
           ctErr     |-> mode = "no column types" /\ d.engine = DataSourceTypePostgreSQL,
           cols      |-> rs.cols,
           next      |-> IF mode = "iteration breaks" /\ Len(rs.rows) > 0
                         THEN SubSeq(rs.rows, 1, Len(rs.rows) - 1) ELSE rs.rows,
           scanErrAt |-> IF mode = "scan fails" THEN Len(rs.rows) ELSE 0,
           iterErr   |-> mode = "iteration breaks"]
    IN rows(ResultSet(d, stmt))

\* name, _ := row[i].(string): the string, or "" for any other dynamic type.
AsString(v) == IF v.t = "string" THEN v.v ELSE ""

\* A QueryResult that counts the rows the driver stepped through, the one
\* whose scan was not kept included.
QueryResultMiscounted(columns, resultRows) ==
    [isNil |-> FALSE, Columns |-> columns, Rows |-> resultRows,
     Stats |-> [RowsReturned |-> Len(resultRows) + 1]]

\* &shared.QueryResult{Columns: columns, Rows: resultRows,
\* Stats: {RowsReturned: int64(len(resultRows))}}; ExecutionTime is left out.
QueryResult(columns, resultRows) ==
    [isNil |-> FALSE, Columns |-> columns, Rows |-> resultRows,
     Stats |-> [RowsReturned |-> Len(resultRows)]]

NilQueryResult ==
    [isNil |-> TRUE, Columns |-> <<>>, Rows |-> <<>>, Stats |-> [RowsReturned |-> 0]]

\* Query, one row: values := make([]interface{}, len(columnTypes)), filled by
\* rows.Scan; the PostgreSQL connection then turns each []byte into a string.
ScanRow(engine, row, n) ==
    [i \in 1..n |->
        IF engine = DataSourceTypePostgreSQL /\ row[i].t = "[]byte"
        THEN String(row[i].v) ELSE row[i]]

\* Query running the statement a second time when the first run failed.
QueryRetrying(d, stmt, mode) ==
    LET failed(r) == r.err \/ r.ctErr \/ r.iterErr \/ r.scanErrAt \in 1..Len(r.next)
        rerun(first, second) ==
          IF ~failed(first)
          THEN [result |-> QueryResult(first.cols,
                                       [k \in 1..Len(first.next) |->
                                          ScanRow(d.engine, first.next[k], Len(first.cols))]),
                err |-> NoError, log |-> <<stmt>>]
          ELSE IF second.err
          THEN [result |-> NilQueryResult, err |-> "query execution failed",
                log |-> <<stmt, stmt>>]
          ELSE [result |-> QueryResult(second.cols,
                                       [k \in 1..Len(second.next) |->
                                          ScanRow(d.engine, second.next[k], Len(second.cols))]),
                err |-> NoError, log |-> <<stmt, stmt>>]
    IN rerun(DriverQuery(d, stmt, mode), DriverQuery(d, stmt, "ok"))

\* (*Connection).Query of both plugins: the result, the error, and log, the
\* statements it sent to the driver.
Query(d, stmt, mode) ==
    LET fail(msg) == [result |-> NilQueryResult, err |-> msg, log |-> <<stmt>>]
        columns(r) == [i \in 1..Len(r.cols) |->
                         [Name |-> r.cols[i].Name, Type |-> r.cols[i].Type,
                          Nullable |-> r.cols[i].Nullable]]
        resultRows(r) ==
            [k \in 1..Len(r.next) |-> ScanRow(d.engine, r.next[k], Len(r.cols))]
        read(r) ==
            IF r.err THEN fail("query execution failed")
            ELSE IF r.ctErr THEN fail("failed to get column types")
            ELSE IF r.scanErrAt \in 1..Len(r.next) THEN fail("failed to scan row")
            ELSE IF r.iterErr THEN fail("rows iteration error")
            ELSE [result |-> QueryResult(columns(r), resultRows(r)),
                  err |-> NoError, log |-> <<stmt>>]
    IN read(DriverQuery(d, stmt, mode))

\* The way each statement of a call went at the driver: the faults of the
\* call, a set of [stmt, mode] with a mode other than "ok".
ModeOf(plan, stmt) ==
    IF \E f \in plan : f.stmt = stmt
    THEN (CHOOSE f \in plan : f.stmt = stmt).mode
    ELSE "ok"

\* (*Connection).getTableColumns (PostgreSQL), its query going as mode says.
getTableColumns(d, schemaName, tableName, mode) ==
    LET columns(rows) ==
          [i \in 1..Len(rows) |->
              [Name |-> AsString(rows[i][1]), Type |-> AsString(rows[i][2]),
               Nullable |-> AsString(rows[i][3]) = "YES"]]
        read(q) ==
          IF q.err # NoError
          THEN [columns |-> <<>>, err |-> "failed to get columns: " \o q.err]
          ELSE [columns |-> columns(q.result.Rows), err |-> NoError]
    IN read(Query(d, ColumnsQuery(schemaName, tableName), mode))

\* The schema GetTables lists: the PostgreSQL connection reads "public" for
\* an empty name.
SchemaRead(engine, schemaName) ==
    IF engine = DataSourceTypePostgreSQL /\ schemaName = "" THEN "public" ELSE schemaName

\* A running GetTables: where it is, the schema it lists, the rows of its
\* table listing, the row its loop is at, the entries appended so far and
\* the error it returns.
NoFrame ==
    [pc |-> "none", schema |-> "", rows |-> <<>>, i |-> 0, tables |-> <<>>,
     err |-> NoError]

GetTablesFrame(engine, schemaName) ==
    [NoFrame EXCEPT !.pc = "query", !.schema = SchemaRead(engine, schemaName)]

NoCall == [op |-> "none"]

\* A running GetTables or GetSchema call: plan and log are the faults the
\* driver produced and the statements it was sent; names, j and databases
\* are the schema names, the position and the entries of the getDatabases
\* loop; gt is the GetTables the call is in.
CallFrame(op, arg) ==
    [op |-> op, pc |-> "running", arg |-> arg, plan |-> {}, log |-> <<>>,
     err |-> NoError, tables |-> <<>>,
     schemaInfo |-> [isNil |-> TRUE, Databases |-> <<>>],
     names |-> <<>>, j |-> 0, databases |-> <<>>, gt |-> NoFrame]

\* The frame after stmt was sent and went as mode says.
Sent(frame, stmt, mode) ==
    [frame EXCEPT !.log = Append(@, stmt),
                  !.plan = IF mode = "ok" THEN @ ELSE @ \cup {[stmt |-> stmt, mode |-> mode]}]

\* A call lets the driver fail at most MaxFaults of its statements;
\* clickhouse-go's ColumnTypes() returns no error.
MayGo(mode) ==
    /\ mode # "ok" =>
          IF cres.op \in {"GetTables", "GetSchema"}
          THEN Cardinality(cres.plan) < MaxFaults ELSE TRUE
    /\ mode = "no column types" => database.engine = DataSourceTypePostgreSQL

\* The statements a caller passes to Query: it creates and selects any of
\* the tables and inserts into public.t1.
UserStatements ==
    { CreateTable(k[1], k[2], cols) : k \in TableSlots, cols \in ColumnLists }
    \cup { InsertRow("public", "t1") }
    \cup { SelectRows(k[1], k[2]) : k \in TableSlots }
    \cup { MalformedStatement }

ConnInit ==
    /\ database \in { EmptyDatabase(t) : t \in PluginTypes }
    /\ cres = NoCall

\* conn.Query(ctx, stmt) by a caller that holds a connection.
ConnectionQuery(stmt, mode) ==
    /\ cres = NoCall
    /\ MayGo(mode)
    /\ database' = IF ResultSet(database, stmt).ok /\ mode # "rejected"
                   THEN Execute(database, stmt) ELSE database
    /\ cres' = [op |-> "Query", pc |-> "returned", stmt |-> stmt, mode |-> mode,
                before |-> database] @@ Query(database, stmt, mode)
    /\ UNCHANGED <<serveVars, configVars, registryVars, driverVars, storeVars, apiVars, proc>>

\* conn.GetTables(ctx, schemaName) by a caller that holds a connection.
ConnectionGetTables(schemaName) ==
    /\ cres = NoCall
    /\ cres' = [CallFrame("GetTables", schemaName) EXCEPT
                   !.gt = GetTablesFrame(database.engine, schemaName)]
    /\ UNCHANGED <<serveVars, database, configVars, registryVars, driverVars, storeVars, apiVars, proc>>

\* GetTables: the table listing.  On an error GetTables returns it.  The
\* ClickHouse connection then appends one TableInfo per row, Columns not
\* assigned; the PostgreSQL connection enters its loop over the rows.
\* RowCount and Size of TableInfo are left out.
GetTablesQuery(mode) ==
    /\ cres # NoCall
    /\ cres.pc = "running"
    /\ cres.gt.pc = "query"
    /\ MayGo(mode)
    /\ LET loop(rows) ==
             IF database.engine = DataSourceTypePostgreSQL /\ Len(rows) > 0
             THEN [cres.gt EXCEPT !.pc = "columns", !.rows = rows, !.i = 1]
             ELSE [cres.gt EXCEPT
                      !.pc = "done", !.rows = rows,
                      !.tables = [i \in 1..Len(rows) |->
                                    [Name |-> AsString(rows[i][1]),
                                     Type |-> AsString(rows[i][2]),
                                     Columns |-> <<>>]]]
           read(q) ==
             IF q.err # NoError
             THEN [cres.gt EXCEPT !.pc = "done",
                                  !.err = "failed to get tables: " \o q.err]
             ELSE loop(q.result.Rows)
       IN cres' = [Sent(cres, TablesQuery(cres.gt.schema), mode) EXCEPT
                      !.gt = read(Query(database, TablesQuery(cres.gt.schema), mode))]
    /\ UNCHANGED <<serveVars, database, configVars, registryVars, driverVars, storeVars, apiVars, proc>>

\* The PostgreSQL GetTables giving up when a column lookup fails.
GetTablesColumnsFailFast(mode) ==
    /\ cres # NoCall
    /\ cres.pc = "running"
    /\ cres.gt.pc = "columns"
    /\ MayGo(mode)
    /\ LET gt   == cres.gt
           row  == gt.rows[gt.i]
           name == AsString(row[1])
           next(c) ==
             IF c.err # NoError
             THEN [gt EXCEPT !.pc = "done", !.tables = <<>>,
                             !.err = "failed to get tables: " \o c.err]
             ELSE [gt EXCEPT
                     !.tables = Append(@, [Name |-> name, Type |-> AsString(row[2]),
                                           Columns |-> c.columns]),
                     !.i = @ + 1,
                     !.pc = IF gt.i = Len(gt.rows) THEN "done" ELSE "columns"]
       IN cres' = [Sent(cres, ColumnsQuery(gt.schema, name), mode) EXCEPT
                      !.gt = next(getTableColumns(database, gt.schema, name, mode))]
    /\ UNCHANGED <<serveVars, database, configVars, registryVars, driverVars, storeVars, apiVars, proc>>

\* GetTables (PostgreSQL), one round of the loop over the listed tables:
\* getTableColumns for the table, an empty column list if it failed, and the
\* TableInfo appended.
GetTablesColumns(mode) ==
    /\ cres # NoCall
    /\ cres.pc = "running"
    /\ cres.gt.pc = "columns"
    /\ MayGo(mode)
    /\ LET gt   == cres.gt
           row  == gt.rows[gt.i]
           name == AsString(row[1])
           next(c) ==
             [gt EXCEPT
                !.tables = Append(@, [Name |-> name, Type |-> AsString(row[2]),
                                      Columns |-> IF c.err # NoError
                                                  THEN <<>> ELSE c.columns]),
                !.i = @ + 1,
                !.pc = IF gt.i = Len(gt.rows) THEN "done" ELSE "columns"]
       IN cres' = [Sent(cres, ColumnsQuery(gt.schema, name), mode) EXCEPT
                      !.gt = next(getTableColumns(database, gt.schema, name, mode))]
    /\ UNCHANGED <<serveVars, database, configVars, registryVars, driverVars, storeVars, apiVars, proc>>

\* GetTables returns to the caller of conn.GetTables.
GetTablesReturn ==
    /\ cres # NoCall
    /\ cres.op = "GetTables"
    /\ cres.pc = "running"
    /\ cres.gt.pc = "done"
    /\ cres' = [cres EXCEPT !.pc = "returned", !.tables = cres.gt.tables,
                            !.err = cres.gt.err, !.gt = NoFrame]
    /\ UNCHANGED <<serveVars, database, configVars, registryVars, driverVars, storeVars, apiVars, proc>>

\* conn.GetSchema(ctx) by a caller that holds a connection: getDatabases up
\* to its first call of GetTables.  An error of the listing is returned; a
\* listed row whose name is not a string is skipped.
ConnectionGetSchema(mode) ==
    /\ cres = NoCall
    /\ MayGo(mode)
    /\ LET frame == Sent(CallFrame("GetSchema", ""), SchemasQuery, mode)
           loop(names) ==
             IF Len(names) = 0
             THEN [frame EXCEPT !.pc = "returned",
                                !.schemaInfo = [isNil |-> FALSE, Databases |-> <<>>]]
             ELSE [frame EXCEPT !.names = names, !.j = 1,
                                !.gt = GetTablesFrame(database.engine, names[1])]
           named(rows) == SelectSeq(rows, LAMBDA row : row[1].t = "string")
           read(q) ==
             IF q.err # NoError
             THEN [frame EXCEPT
                     !.pc = "returned",
                     !.err = (IF database.engine = DataSourceTypePostgreSQL
                              THEN "failed to get schemas: "
                              ELSE "failed to get databases: ") \o q.err]
             ELSE loop([i \in 1..Len(named(q.result.Rows)) |->
                          named(q.result.Rows)[i][1].v])
       IN cres' = read(Query(database, SchemasQuery, mode))
    /\ UNCHANGED <<serveVars, database, configVars, registryVars, driverVars, storeVars, apiVars, proc>>

\* getDatabases giving up when the table listing of a schema fails.
getDatabasesNextFailFast ==
    /\ cres # NoCall
    /\ cres.op = "GetSchema"
    /\ cres.pc = "running"
    /\ cres.gt.pc = "done"
    /\ LET entry == [Name |-> cres.names[cres.j], Tables |-> cres.gt.tables]
           databases == Append(cres.databases, entry)
       IN cres' =
            IF cres.gt.err # NoError
            THEN [cres EXCEPT !.pc = "returned", !.err = cres.gt.err, !.gt = NoFrame]
            ELSE IF cres.j = Len(cres.names)
            THEN [cres EXCEPT !.pc = "returned", !.databases = databases,
                              !.schemaInfo = [isNil |-> FALSE, Databases |-> databases],
                              !.gt = NoFrame]
            ELSE [cres EXCEPT !.databases = databases, !.j = @ + 1,
                              !.gt = GetTablesFrame(database.engine,
                                                    cres.names[cres.j + 1])]
    /\ UNCHANGED <<serveVars, database, configVars, registryVars, driverVars, storeVars, apiVars, proc>>

\* getDatabases, GetTables has returned for the schema the loop is at: the
\* schema is appended with the tables, or with none if GetTables failed,
\* and the loop goes on to the next schema; after the last one GetSchema
\* returns the SchemaInfo.
getDatabasesNext ==
    /\ cres # NoCall
    /\ cres.op = "GetSchema"
    /\ cres.pc = "running"
    /\ cres.gt.pc = "done"
    /\ LET entry == [Name |-> cres.names[cres.j],
                     Tables |-> IF cres.gt.err # NoError THEN <<>> ELSE cres.gt.tables]
           databases == Append(cres.databases, entry)
       IN cres' =
            IF cres.j = Len(cres.names)
            THEN [cres EXCEPT !.pc = "returned", !.databases = databases,
                              !.schemaInfo = [isNil |-> FALSE, Databases |-> databases],
                              !.gt = NoFrame]
            ELSE [cres EXCEPT !.databases = databases, !.j = @ + 1,
                              !.gt = GetTablesFrame(database.engine,
                                                    cres.names[cres.j + 1])]
    /\ UNCHANGED <<serveVars, database, configVars, registryVars, driverVars, storeVars, apiVars, proc>>

\* The caller has taken the outcome of the call.
ConnectionReturned ==
    /\ cres # NoCall
    /\ cres.pc = "returned"
    /\ cres' = NoCall
    /\ UNCHANGED <<serveVars, database, configVars, registryVars, driverVars, storeVars, apiVars, proc>>

-----------------------------------------------------------------------------
(* The parts of the state a specification does not exercise stay as        *)
(* constructed.                                                            *)

ConfigIdle ==
    /\ value = NoConfig
    /\ vprev = NoConfig
    /\ verr = NoError
    /\ vcall = [op |-> "none", plugin |-> "none"]

StoreIdle == store = EmptyStore /\ nextID = 1 /\ now = 0
ApiIdle   == phase = "init" /\ resp = NoResp
ConnIdle  == database = NoDatabase /\ cres = NoCall

-----------------------------------------------------------------------------
(* SpecConfig: Validate and ValidateConfig applied to every value.         *)

ConfigSpecInit ==
    ConfigInit /\ RegistryInit /\ DriverInit /\ ProcInit /\ StoreIdle /\ ApiIdle /\ ConnIdle /\ ServeConfigInit

ConfigNext ==
    \/ CallValidate
    \/ \E t \in PluginTypes : CallValidateConfig(t)

SpecConfig == ConfigSpecInit /\ [][ConfigNext]_vars

(* SpecRegistry: any sequence of Register and Get calls on one registry.   *)

RegistrySpecInit ==
    ConfigIdle /\ RegistryInit /\ DriverInit /\ ProcInit /\ StoreIdle /\ ApiIdle /\ ConnIdle /\ ServeConfigInit

RegistryNext ==
    \/ \E plugin \in Plugins : DoRegister(plugin)
    \/ \E t \in DataSourceTypes : DoGet(t)
    \/ DoGetSupportedTypes
    \/ DoList
    \/ \E t \in PluginTypes, plugin \in Plugins : CallerPut(t, plugin)
    \/ \E t \in PluginTypes : CallerDelete(t)

SpecRegistry == RegistrySpecInit /\ [][RegistryNext]_vars

(* SpecPlugin: callers running Connect and TestConnection concurrently.    *)

PluginSpecInit ==
    ConfigIdle /\ RegistryInit /\ DriverInit /\ ProcInit /\ StoreIdle /\ ApiIdle /\ ConnIdle /\ ServeConfigInit

PluginNext ==
    \E p \in Procs :
        \/ \E t \in PluginTypes, c \in CallConfigs : StartCall(p, "Connect", t, c)
        \/ \E t \in PluginTypes, c \in CallConfigs : StartCall(p, "TestConnection", t, c)
        \/ ConnectAssert(p)
        \/ ConnectValidate(p)
        \/ ConnectOpen(p)
        \/ ConnectPing(p)
        \/ ConnectPingFailed(p)
        \/ CallerClose(p)
        \/ CallerCloseAgain(p)
        \/ TestConnectionConnected(p)
        \/ TestConnectionPing(p)
        \/ TestConnectionDefer(p)
        \/ CallDone(p)

SpecPlugin == PluginSpecInit /\ [][PluginNext]_vars

-----------------------------------------------------------------------------
(* Properties of the plugins (SpecPlugin).                                 *)

\* The driver events of call p that failed.
FailedEvents(p) ==
    { i \in 1..Len(proc[p].events) : ~proc[p].events[i].ok }

DriverEvents == {"GetConnectionString", "Open", "Ping"}

\* C1: whenever Connect has returned an error, every driver client the call
\* opened is closed; a failed Connect leaves no open handle behind.
ConnectFailureLeakFree ==
    \A p \in Procs :
        (proc[p].pc = "connect_ret" /\ proc[p].err # NoError)
            => \A h \in proc[p].opened : handles[h] = "closed"

\* Witness of C1: a Connect whose ping failed after the client was opened
\* has returned its error.
ConnectPingFailureReturned ==
    \E p \in Procs :
        /\ proc[p].pc = "connect_ret"
        /\ proc[p].err # NoError
        /\ proc[p].opened # {}
        /\ Event("Ping", FALSE) = proc[p].events[Len(proc[p].events) - 1]

\* C2: TestConnection always returns a non-nil result and a nil error, and
\* the result says IsConnected = false whenever a step of the call failed.
TestConnectionNeverErrors ==
    \A p \in Procs :
        (proc[p].op = "TestConnection" /\ proc[p].pc = "tc_ret")
            => /\ ~proc[p].result.isNil
               /\ proc[p].retErr = NoError
               /\ (FailedEvents(p) # {} => ~proc[p].result.IsConnected)

\* Witness of C2: a TestConnection whose Connect failed has returned.
TestConnectionFailureReturned ==
    \E p \in Procs :
        /\ proc[p].op = "TestConnection"
        /\ proc[p].pc = "tc_ret"
        /\ proc[p].err # NoError
        /\ ~proc[p].result.IsConnected

\* C3: when TestConnection has returned, on any of its paths, every driver
\* client opened during the call is closed.
TestConnectionLeavesNothingOpen ==
    \A p \in Procs :
        (proc[p].op = "TestConnection" /\ proc[p].pc = "tc_ret")
            => \A h \in proc[p].opened : handles[h] = "closed"

\* Witness of C3: a successful TestConnection, which opened a client, has
\* returned.
TestConnectionSuccessReturned ==
    \E p \in Procs :
        /\ proc[p].op = "TestConnection"
        /\ proc[p].pc = "tc_ret"
        /\ proc[p].result.IsConnected
        /\ proc[p].opened # {}

\* C4: in Connect every GetConnectionString, open and ping comes after a
\* successful type assertion and a successful Validate; a config of the
\* wrong variant or failing Validate causes no driver activity at all.
ConfigCheckedBeforeDriver ==
    \A p \in Procs :
        LET ev == proc[p].events IN
        /\ \A i \in 1..Len(ev) :
              ev[i].e \in DriverEvents
                 => /\ i > 2
                    /\ ev[1] = Event("TypeAssert", TRUE)
                    /\ ev[2] = Event("Validate", TRUE)
        /\ (/\ proc[p].op # "idle"
            /\ \/ proc[p].config.kind # ConfigKindOf(proc[p].plugin)
               \/ Validate(proc[p].config).err # NoError)
              => \A i \in 1..Len(ev) : ev[i].e \notin DriverEvents

\* Witness of C4: a Connect given a config that fails Validate has returned.
ConnectRejectedInvalidConfig ==
    \E p \in Procs :
        /\ proc[p].pc = "connect_ret"
        /\ proc[p].events = <<Event("TypeAssert", TRUE), Event("Validate", FALSE)>>

\* The Close calls made in call p so far.
Closes(p) == { i \in 1..Len(proc[p].events) : proc[p].events[i].e = "Close" }

AllSucceeded(p) == \A i \in 1..Len(proc[p].events) : proc[p].events[i].ok

\* C22: a TestConnection to a reachable host, every step of which
\* succeeded, returns IsConnected true, the message "Connection successful"
\* and a Latency greater than 0.
TestConnectionLatencyPositive ==
    \A p \in Procs :
        (/\ proc[p].op = "TestConnection"
         /\ proc[p].pc = "tc_ret"
         /\ proc[p].reachable
         /\ AllSucceeded(p))
           => /\ proc[p].result.IsConnected
              /\ proc[p].result.Message = "Connection successful"
              /\ proc[p].result.Latency > 0

\* C23: a TestConnection given a valid config of the plugin's variant whose
\* host cannot be reached returns IsConnected false and the message of a
\* failed open.
UnreachableHostFailsOpen ==
    \A p \in Procs :
        (/\ proc[p].op = "TestConnection"
         /\ proc[p].pc = "tc_ret"
         /\ ~proc[p].reachable
         /\ proc[p].config.kind = ConfigKindOf(proc[p].plugin)
         /\ Validate(proc[p].config).err = NoError)
           => /\ ~proc[p].result.IsConnected
              /\ proc[p].result.Message
                    = "failed to open " \o ProductOf(proc[p].plugin) \o " connection"

\* The opens and pings of call p so far.
Attempts(p) == { i \in 1..Len(proc[p].events) : proc[p].events[i].e \in {"Open", "Ping"} }

\* The message Connect or TestConnection reports for a failed step.
FailureMessage(p, e) ==
    IF e = "Open" THEN "failed to open " \o ProductOf(proc[p].plugin) \o " connection"
    ELSE IF proc[p].err # NoError THEN "failed to ping " \o ProductOf(proc[p].plugin)
    ELSE "ping failed"

\* C24: in a Connect or TestConnection call a failed open or ping is the
\* last open or ping of the call, and the call that has returned reports
\* that failure: Connect as its error, TestConnection as the message of a
\* result that says IsConnected false.
FailuresTerminal ==
    \A p \in Procs :
        \A i \in Attempts(p) :
            ~proc[p].events[i].ok =>
               /\ \A j \in Attempts(p) : j <= i
               /\ proc[p].op = "Connect" /\ proc[p].pc = "connect_ret" =>
                     proc[p].err = FailureMessage(p, proc[p].events[i].e)
               /\ proc[p].op = "TestConnection" /\ proc[p].pc = "tc_ret" =>
                     /\ ~proc[p].result.IsConnected
                     /\ proc[p].result.Message = FailureMessage(p, proc[p].events[i].e)
                     /\ proc[p].retErr = NoError

\* Witness of C24: a TestConnection whose own ping failed, after the open
\* and the ping of Connect had succeeded, has returned that failure.
TestConnectionPingFailureReturned ==
    \E p \in Procs :
        /\ proc[p].op = "TestConnection"
        /\ proc[p].pc = "tc_ret"
        /\ Cardinality(Attempts(p)) = 3
        /\ proc[p].result.Message = "ping failed"

-----------------------------------------------------------------------------
(* Properties of the config variants (SpecConfig).                         *)

\* The mandatory field of a config is empty.
MandatoryEmpty(c) ==
    CASE c.kind \in {"PostgreSQLConfig", "ClickHouseConfig"} -> c.Host = ""
      [] c.kind = "SQLiteConfig"     -> c.Path = ""
      [] c.kind = "OpenSearchConfig" -> c.URLs = <<>>

HasPort(c) == c.kind \in {"PostgreSQLConfig", "ClickHouseConfig"}

DefaultPortOf(c) ==
    IF c.kind = "PostgreSQLConfig" THEN DefaultPostgreSQLPort ELSE DefaultClickHousePort

\* c with its Port and SSLMode (where it has them) taken from d.
WithPortAndMode(c, d) ==
    CASE c.kind = "PostgreSQLConfig" -> [c EXCEPT !.Port = d.Port, !.SSLMode = d.SSLMode]
      [] c.kind = "ClickHouseConfig" -> [c EXCEPT !.Port = d.Port]
      [] OTHER -> c

\* C5 as stated: Validate fails on an empty mandatory field and otherwise
\* succeeds, a zero Port becoming the default, an empty SSLMode "prefer",
\* and every field that was already set (non-zero) staying as given.
ValidateDefaultsOnlyUnset ==
    vcall.op = "Validate" =>
        IF MandatoryEmpty(vprev) THEN verr # NoError
        ELSE /\ verr = NoError
             /\ value = WithPortAndMode(vprev, value)
             /\ HasPort(vprev) =>
                  value.Port = IF vprev.Port = 0 THEN DefaultPortOf(vprev) ELSE vprev.Port
             /\ vprev.kind = "PostgreSQLConfig" =>
                  value.SSLMode = IF vprev.SSLMode = "" THEN DefaultSSLMode
                                  ELSE vprev.SSLMode

\* C5 amended: as above, but a Port that is zero or negative becomes the
\* default, and only a positive Port is left as given.
ValidateDefaultsNonPositive ==
    vcall.op = "Validate" =>
        IF MandatoryEmpty(vprev) THEN verr # NoError
        ELSE /\ verr = NoError
             /\ value = WithPortAndMode(vprev, value)
             /\ HasPort(vprev) =>
                  value.Port = IF vprev.Port <= 0 THEN DefaultPortOf(vprev) ELSE vprev.Port
             /\ vprev.kind = "PostgreSQLConfig" =>
                  value.SSLMode = IF vprev.SSLMode = "" THEN DefaultSSLMode
                                  ELSE vprev.SSLMode

\* Witness of C5: Validate has run on a PostgreSQL config with a host, a
\* negative port and no SSL mode.
ValidatedNegativePort ==
    /\ vcall.op = "Validate"
    /\ vprev.kind = "PostgreSQLConfig"
    /\ vprev.Host # "" /\ vprev.Port < 0 /\ vprev.SSLMode = ""
    /\ value.Port = DefaultPostgreSQLPort

\* C6: ValidateConfig returns an error for every value that is not the
\* plugin's own config variant, and for its own variant returns what
\* Validate returns (and leaves the config as Validate leaves it).
ValidateConfigRejectsOtherTypes ==
    vcall.op = "ValidateConfig" =>
        IF vprev.kind # ConfigKindOf(vcall.plugin)
        THEN verr # NoError /\ value = vprev
        ELSE verr = Validate(vprev).err /\ value = Validate(vprev).cfg

\* Witness of C6: a plugin was handed the valid config of the other plugin
\* and rejected it.
ValidateConfigRejectedOtherPlugin ==
    /\ vcall.op = "ValidateConfig"
    /\ vprev.kind \in {"PostgreSQLConfig", "ClickHouseConfig"}
    /\ vprev.kind # ConfigKindOf(vcall.plugin)
    /\ vprev.Host # ""
    /\ verr # NoError

-----------------------------------------------------------------------------
(* Properties of the registry (SpecRegistry).                              *)

\* The positions, among the first n Register calls, that registered type t.
RegisteredAt(t, n) == { i \in 1..n : GetType(regLog[i]) = t }

SetMax(S) == CHOOSE m \in S : \A x \in S : x <= m

\* C10: Get(t) returns (p, true) with p the plugin most recently registered
\* under type t, and found = false for a type never registered.
GetReturnsLatestRegistered ==
    getRes.type # "none" =>
        LET at == RegisteredAt(getRes.type, getRes.at) IN
        IF at = {} THEN ~getRes.found
        ELSE getRes.found /\ getRes.plugin = regLog[SetMax(at)]

\* Witness of C10: Get found a plugin whose type had been registered twice,
\* with two different instances.
GetAfterReRegistration ==
    /\ getRes.found
    /\ \E i, j \in RegisteredAt(getRes.type, getRes.at) :
          i < j /\ regLog[i] # regLog[j] /\ getRes.plugin = regLog[j]

\* The types passed to the first n Register calls.
RegisteredTypes(n) == { GetType(regLog[i]) : i \in 1..n }

\* C11: the registry holds one entry per distinct registered type, however
\* often a type was registered, and GetSupportedTypes() returns a list
\* without duplicates whose length is the number of distinct registered
\* types.
RegisterIdempotentPerType ==
    /\ Cardinality(DOMAIN plugins) = Cardinality(RegisteredTypes(Len(regLog)))
    /\ types.taken =>
          /\ Cardinality(DOMAIN types.seq) = Cardinality(RegisteredTypes(Len(regLog)))
          /\ \A i, j \in DOMAIN types.seq : i # j => types.seq[i] # types.seq[j]

\* Witness of C11: GetSupportedTypes called after three Register calls, two
\* of them for one type, returned two types.
SupportedTypesAfterReRegistration ==
    /\ types.taken
    /\ Len(regLog) = 3
    /\ \E i, j \in 1..Len(regLog) : i < j /\ GetType(regLog[i]) = GetType(regLog[j])
    /\ Cardinality(DOMAIN types.seq) = 2

\* The map the first n Register calls build.
RECURSIVE RegisteredMap(_)
RegisteredMap(n) ==
    IF n = 0 THEN NewRegistry ELSE Register(RegisteredMap(n - 1), regLog[n])

\* C12: the map List() returns is a copy: whatever its caller adds, replaces
\* or deletes in it, the registry still holds what the Register calls built,
\* and Get, List and GetSupportedTypes return that.
ListIsDefensiveCopy ==
    LET built == RegisteredMap(Len(regLog)) IN
    /\ plugins = built
    /\ getRes.type # "none" =>
          [plugin |-> getRes.plugin, found |-> getRes.found] = Get(built, getRes.type)
    /\ types.taken => types.seq \in GetSupportedTypes(built)
    /\ listed.ref # "none" /\ listed.muts = 0 => listed.m = built

\* Witness of C12: the caller of List deleted an entry of the map it was
\* given, and a Get made after that still found the plugin.
GetAfterListedMapWritten ==
    /\ listed.muts > 0
    /\ listed.m # plugins
    /\ getRes.found
    /\ getRes.type \notin DOMAIN listed.m

-----------------------------------------------------------------------------
(* Spec: the serve command, its requests handled concurrently.             *)

Init ==
    ConfigIdle /\ RegistryInit /\ DriverInit /\ ProcInit /\ ServeInit /\ ConnIdle /\ ServeConfigInit

Next ==
    \/ Startup
    \/ \E req \in CreateRequests \cup {Malformed} : CreateDataSource(req)
    \/ \E p \in Procs, idParam \in IdParams, req \in UpdateRequests \cup {Malformed} :
          UpdateDataSourceRead(p, idParam, req)
    \/ \E p \in Procs : UpdateDataSourceSave(p)
    \/ \E idParam \in IdParams : DeleteDataSource(idParam)
    \/ ResponseSent

Spec == Init /\ [][Next]_vars

-----------------------------------------------------------------------------
(* SpecStats: GET /datasource-stats served while other requests write the  *)
(* table.                                                                  *)

StatsNext ==
    \/ Startup
    \/ \E req \in CreateRequests \cup {Malformed} : CreateDataSource(req)
    \/ \E p \in Procs, idParam \in IdParams, req \in UpdateRequests \cup {Malformed} :
          UpdateDataSourceRead(p, idParam, req)
    \/ \E p \in Procs : UpdateDataSourceSave(p)
    \/ \E idParam \in IdParams : DeleteDataSource(idParam)
    \/ \E p \in Procs : GetDataSourceStatsTotal(p)
    \/ \E p \in Procs : GetDataSourceStatsActive(p)
    \/ \E p \in Procs : GetDataSourceStatsByType(p)
    \/ ResponseSent

SpecStats == Init /\ [][StatsNext]_vars

-----------------------------------------------------------------------------
(* SpecShutdown: the serve command from its start to the end of the        *)
(* process, interrupted while requests are handled.                        *)

ShutdownNext ==
    \/ Startup
    \/ \E p \in Procs, idParam \in IdParams, req \in UpdateRequests \cup {Malformed} :
          UpdateDataSourceRead(p, idParam, req)
    \/ \E p \in Procs : UpdateDataSourceSave(p)
    \/ \E idParam \in IdParams : DeleteDataSource(idParam)
    \/ \E p \in Procs : GetDataSourceStatsTotal(p)
    \/ \E p \in Procs : GetDataSourceStatsActive(p)
    \/ \E p \in Procs : GetDataSourceStatsByType(p)
    \/ ResponseSent
    \/ Interrupt
    \/ ShutdownClean
    \/ ShutdownForced
    \/ ProcessExit

SpecShutdown == Init /\ [][ShutdownNext]_vars

-----------------------------------------------------------------------------
(* SpecServe: the serve command from its start to the listening server,    *)
(* over every config file and every value of the --host and --port flags.  *)

ServeSpecInit ==
    ConfigIdle /\ RegistryInit /\ DriverInit /\ ProcInit /\ StoreIdle /\ ApiIdle /\ ConnIdle /\ ServeConfigInit

SpecServe == ServeSpecInit /\ [][ServeNext]_vars

-----------------------------------------------------------------------------
(* Properties of the API and the metadata store (Spec).  resp is the       *)
(* response just written; resp.before is the table as the answering step   *)
(* found it and store is the table as it left it.                          *)

\* The config of a create request carries the mandatory field of its type.
CarriesMandatory(req) ==
    LET key == IF req.Type = DataSourceTypeSQLite THEN "path" ELSE "host" IN
    \E kv \in req.Config.m : kv[1] = key /\ kv[2] # ""

NameInUse(st, name) == \E i \in DOMAIN st : st[i].Name = name

\* C7: a create request that names a registered type, a new name and a
\* config carrying every mandatory field of the type is answered 201 and
\* adds exactly one record with that name, type and serialized config, with
\* is_active true.
CreateAccepted ==
    (/\ resp.op = "Create"
     /\ BindCreate(resp.req)
     /\ resp.req.Type \in DOMAIN plugins
     /\ ~NameInUse(resp.before, resp.req.Name)
     /\ CarriesMandatory(resp.req))
      => /\ resp.status = StatusCreated
         /\ \E id \in (DOMAIN store) \ (DOMAIN resp.before) :
               /\ DOMAIN store = (DOMAIN resp.before) \cup {id}
               /\ \A i \in DOMAIN resp.before : store[i] = resp.before[i]
               /\ store[id].Name = resp.req.Name
               /\ store[id].Type = resp.req.Type
               /\ store[id].Config = Marshal(resp.req.Config.m)
               /\ store[id].IsActive

\* C8: a successful update changes only the fields it provides: each of
\* name, description, tags, is_active and config absent from the request
\* keeps its stored value, and id, type, created_by and created_at are not
\* changed.
UpdateChangesOnlyProvided ==
    (/\ resp.op = "Update"
     /\ resp.status = StatusOK
     /\ resp.id \in DOMAIN resp.before)
      => LET old == resp.before[resp.id]
             new == store[resp.id]
             has == resp.req.has
         IN /\ "name" \notin has => new.Name = old.Name
            /\ "description" \notin has => new.Description = old.Description
            /\ "tags" \notin has => new.Tags = old.Tags
            /\ "is_active" \notin has => new.IsActive = old.IsActive
            /\ "config" \notin has => new.Config = old.Config
            /\ new.ID = old.ID
            /\ new.Type = old.Type
            /\ new.CreatedBy = old.CreatedBy
            /\ new.CreatedAt = old.CreatedAt

UniqueNames(st) ==
    \A i, j \in DOMAIN st : i # j => st[i].Name # st[j].Name

\* C9: no two records of the table ever have the same name; a create with a
\* name in use, and an update that would give a record the name of another
\* record, fail and leave the table unchanged.
NamesStayUnique ==
    /\ UniqueNames(store)
    /\ (/\ resp.op = "Create"
        /\ BindCreate(resp.req)
        /\ NameInUse(resp.before, resp.req.Name))
          => resp.status >= StatusBadRequest /\ store = resp.before
    /\ (/\ resp.op = "Update"
        /\ resp.req # Malformed
        /\ "name" \in resp.req.has
        /\ \E i \in DOMAIN resp.before :
              i # resp.id /\ resp.before[i].Name = resp.req.Name)
          => resp.status >= StatusBadRequest /\ store = resp.before

\* Witness of C9: an update that renames a record to the name of another
\* record has reached the table and been refused.
RenameToTakenNameRefused ==
    /\ resp.op = "Update"
    /\ resp.status = StatusInternalServerError
    /\ "name" \in resp.req.has
    /\ NameTaken(resp.before, resp.ds)
    /\ store = resp.before

\* C25: a record that has been deleted is not in the table again after any
\* later step, and a delete answered 204 leaves GetDataSource of its id
\* answering not found and every other record as it was.
DeletedStaysDeleted ==
    [][/\ \A i \in 1..(nextID - 1) : i \notin DOMAIN store => i \notin DOMAIN store'
       /\ (resp = NoResp /\ resp'.op = "Delete" /\ resp'.status = StatusNoContent) =>
             /\ StoreGetDataSource(store', resp'.id).err # NoError
             /\ \A i \in (DOMAIN store) \ {resp'.id} :
                   i \in DOMAIN store' /\ store'[i] = store[i]]_vars

\* C26: when a request has been answered with a 4xx status the table is as
\* the request found it.
ClientErrorLeavesStore ==
    resp.status \in 400..499 => store = resp.before

\* Witness of C26: an update that carried tags, is_active and a config was
\* answered 400 for the config, and the record is still active.
UpdateRejectedForConfig ==
    /\ resp.op = "Update"
    /\ resp.status = StatusBadRequest
    /\ resp.req # Malformed
    /\ {"config", "is_active"} \subseteq resp.req.has
    /\ ~resp.req.IsActive
    /\ resp.id \in DOMAIN store
    /\ store[resp.id].IsActive

\* The column each member of an update request is stored in.
UpdateColumns ==
    [name |-> "Name", description |-> "Description", tags |-> "Tags",
     is_active |-> "IsActive", config |-> "Config"]

\* C27: when an update has succeeded, every field it did not provide and
\* that another request changed between its read and its write still has
\* the value the other request gave it.
ConcurrentUpdatesKeepBoth ==
    (/\ resp.op = "Update"
     /\ resp.status = StatusOK
     /\ resp.id \in DOMAIN resp.before)
      => \A f \in (DOMAIN UpdateColumns) \ resp.req.has :
            LET col == UpdateColumns[f] IN
            resp.before[resp.id][col] # resp.ds[col]
               => store[resp.id][col] = resp.before[resp.id][col]

-----------------------------------------------------------------------------
RECURSIVE SumCounts(_)
SumCounts(m) ==
    IF DOMAIN m = {} THEN 0
    ELSE LET t == CHOOSE t \in DOMAIN m : TRUE IN
         m[t] + SumCounts([u \in (DOMAIN m) \ {t} |-> m[u]])

\* C28: the statistics returned by GET /datasource-stats are a consistent
\* snapshot, also when other requests write the table during the three
\* queries: TotalCount is the sum of CountByType over all types, and
\* ActiveCount is at most TotalCount.
StatsConsistentSnapshot ==
    (resp.op = "Stats" /\ resp.status = StatusOK) =>
        /\ resp.stats.TotalCount = SumCounts(resp.stats.CountByType)
        /\ resp.stats.ActiveCount <= resp.stats.TotalCount

\* C30: the HTTP server is only ever started with a configuration that
\* satisfies ViperConfig.Validate, whatever the config file, the defaults
\* and the --host and --port flags are; in particular its port is within
\* 1..65535.
ServerStartedValidated ==
    srv # NoServer => ViperConfigValidate(cfg) = NoError

\* The handler p executes a store operation in this step: the save of an
\* update, or the second or third query of the statistics.
StoreOperation(p) ==
    /\ proc[p].pc \in {"save", "active", "by_type"}
    /\ proc'[p].pc # proc[p].pc

\* C29: the metadata store is closed only after the HTTP server has stopped
\* serving: whether the shutdown was clean or forced after the timeout, no
\* request handler executes a store operation once metadataStore.Close()
\* has run.
NoStoreOperationAfterClose ==
    [][StoreClosed => \A p \in Procs : ~StoreOperation(p)]_vars

-----------------------------------------------------------------------------
(* Properties of the serve command's registry (Spec).                      *)

\* C13: the registry is written at startup only: once the server accepts
\* requests no step registers a plugin, so no Register runs while a handler
\* reads the map.
RegistryWriteOnceAtStartup ==
    [][phase = "serving" => plugins' = plugins /\ regLog' = regLog]_vars

\* Witness of C13: a handler looked the request's type up in the registry
\* while the server was serving, and found a plugin.
HandlerReadRegistry ==
    /\ phase = "serving"
    /\ resp.op = "Create"
    /\ resp.req.kind = "create"
    /\ Get(plugins, resp.req.Type).found
    /\ Len(regLog) = 2

\* C14: after InitializePlugins the registry has a plugin for each of the
\* four DataSourceTypes.
InitializePluginsRegistersAll ==
    phase = "serving" => \A t \in DataSourceTypes : Get(plugins, t).found

-----------------------------------------------------------------------------
(* SpecTest: the serve command answering connection tests, concurrently,   *)
(* of datasources that are deleted meanwhile.  No other handler opens a    *)
(* connection, and none can change the type or the configuration of a row  *)
(* whose type has a plugin.                                                *)

TestInit ==
    ConfigIdle /\ RegistryInit /\ DriverInit /\ ProcInit /\ ServeInit /\ ConnIdle /\ ServeConfigInit

TestNext ==
    \/ Startup
    \/ \E idParam \in IdParams : DeleteDataSource(idParam)
    \/ ResponseSent
    \/ \E p \in Procs :
          \/ \E idParam \in IdParams : TestDataSource(p, idParam)
          \/ ConnectAssert(p)
          \/ ConnectValidate(p)
          \/ ConnectOpen(p)
          \/ ConnectPing(p)
          \/ ConnectPingFailed(p)
          \/ TestConnectionConnected(p)
          \/ TestConnectionPing(p)
          \/ TestConnectionDefer(p)
          \/ TestDataSourceRespond(p)

SpecTest == TestInit /\ [][TestNext]_vars

\* C15: when no request is in flight, every connection opened for a request
\* has been closed.
ConnectionsClosedPerRequest ==
    (\A p \in Procs : proc[p].op = "idle") =>
        \A h \in DOMAIN handles : handles[h] = "closed"

\* Witness of C15: a connection test that opened a connection and reached
\* the server has been answered, and no request is in flight.
TestAnsweredConnected ==
    /\ \A p \in Procs : proc[p].op = "idle"
    /\ resp.op = "Test"
    /\ resp.status = StatusOK
    /\ resp.result.IsConnected
    /\ Len(handles) > 0

-----------------------------------------------------------------------------
(* SpecConnection: one connection to a PostgreSQL or a ClickHouse server,  *)
(* its caller creating tables, inserting and selecting rows through Query  *)
(* and reading the catalog through GetTables and GetSchema, while the      *)
(* driver fails some of the statements.                                    *)

\* The schema names a caller passes to GetTables.
SchemaArgs == { SchemaNames[i] : i \in 1..Len(SchemaNames) } \cup {""}

\* The ways the next statement of the call can go, and the statements the
\* caller sends next: it inserts until the table holds MaxRows rows.
NextModes == { mode \in Modes : MayGo(mode) }

NextStatements ==
    { stmt \in UserStatements :
        stmt.kind = "insert" /\ <<stmt.schema, stmt.table>> \in DOMAIN database.tables
          => database.tables[<<stmt.schema, stmt.table>>].rows < MaxRows }

ConnectionSpecInit ==
    ConfigIdle /\ RegistryInit /\ DriverInit /\ ProcInit /\ StoreIdle /\ ApiIdle /\ ConnInit /\ ServeConfigInit

ConnectionNext ==
    \/ \E stmt \in NextStatements, mode \in NextModes : ConnectionQuery(stmt, mode)
    \/ \E schemaName \in SchemaArgs : ConnectionGetTables(schemaName)
    \/ \E mode \in NextModes : GetTablesQuery(mode)
    \/ \E mode \in NextModes : GetTablesColumns(mode)
    \/ GetTablesReturn
    \/ \E mode \in NextModes : ConnectionGetSchema(mode)
    \/ getDatabasesNext
    \/ ConnectionReturned

SpecConnection == ConnectionSpecInit /\ [][ConnectionNext]_vars

-----------------------------------------------------------------------------
(* Properties of the connections (SpecConnection).  cres is the call on   *)
(* the connection, its outcome once it has returned; database is the       *)
(* server's tables.                                                        *)

\* The call op has returned to its caller.
Returned(op) == cres.op = op /\ cres.pc = "returned"

\* The statement, going the way mode says, makes Query fail.
DriverFails(d, stmt, mode) ==
    LET r == DriverQuery(d, stmt, mode) IN
    r.err \/ r.ctErr \/ r.scanErrAt \in 1..Len(r.next) \/ r.iterErr

\* The names of the entries of a list of TableInfo or DatabaseInfo.
NamesOf(infos) == [i \in 1..Len(infos) |-> infos[i].Name]

\* C16: GetSchema fails only when the listing of the schemas fails;
\* otherwise it returns one entry per listed schema, with no tables for a
\* schema whose table listing failed and with its tables for every other.
GetSchemaBestEffort ==
    Returned("GetSchema") =>
        IF DriverFails(database, SchemasQuery, ModeOf(cres.plan, SchemasQuery))
        THEN cres.err # NoError /\ cres.schemaInfo.isNil
        ELSE /\ cres.err = NoError
             /\ ~cres.schemaInfo.isNil
             /\ NamesOf(cres.schemaInfo.Databases) = SchemaNames
             /\ \A i \in 1..Len(SchemaNames) :
                   LET stmt == TablesQuery(SchemaNames[i]) IN
                   IF DriverFails(database, stmt, ModeOf(cres.plan, stmt))
                   THEN cres.schemaInfo.Databases[i].Tables = <<>>
                   ELSE NamesOf(cres.schemaInfo.Databases[i].Tables)
                          = TablesOf(database, SchemaNames[i])

\* Witness of C16: GetSchema succeeded although the table listing of a
\* schema that has tables failed; that schema is listed without tables and
\* another one with its tables.
GetSchemaWithFailedSchema ==
    /\ Returned("GetSchema")
    /\ cres.err = NoError
    /\ \E i, j \in 1..Len(SchemaNames) :
          /\ TablesOf(database, SchemaNames[i]) # <<>>
          /\ DriverFails(database, TablesQuery(SchemaNames[i]),
                         ModeOf(cres.plan, TablesQuery(SchemaNames[i])))
          /\ cres.schemaInfo.Databases[i].Tables = <<>>
          /\ cres.schemaInfo.Databases[j].Tables # <<>>

\* The columns of a table as ColumnInfo, from the DDL that created it.
DeclaredColumns(d, s, name) ==
    LET cs == d.tables[<<s, name>>].cols IN
    [i \in 1..Len(cs) |->
        [Name |-> cs[i].Name, Type |-> cs[i].Type, Nullable |-> cs[i].Nullable]]

\* C17: when the table listing succeeds, the PostgreSQL GetTables returns
\* one entry per listed table, in listing order, with no columns for a table
\* whose column lookup failed and with its columns for every other.
GetTablesToleratesColumnFailures ==
    Returned("GetTables") /\ database.engine = DataSourceTypePostgreSQL =>
        LET s == SchemaRead(database.engine, cres.arg)
            names == TablesOf(database, s)
        IN ~DriverFails(database, TablesQuery(s), ModeOf(cres.plan, TablesQuery(s))) =>
             /\ cres.err = NoError
             /\ NamesOf(cres.tables) = names
             /\ \A i \in 1..Len(names) :
                   LET stmt == ColumnsQuery(s, names[i]) IN
                   IF DriverFails(database, stmt, ModeOf(cres.plan, stmt))
                   THEN cres.tables[i].Columns = <<>>
                   ELSE cres.tables[i].Columns = DeclaredColumns(database, s, names[i])

\* Witness of C17: GetTables succeeded although the column lookup of one
\* table failed; that table is listed without columns, another with its own.
GetTablesWithFailedColumns ==
    /\ Returned("GetTables")
    /\ database.engine = DataSourceTypePostgreSQL
    /\ cres.err = NoError
    /\ \E i, j \in 1..Len(cres.tables) :
          /\ LET stmt == ColumnsQuery(SchemaRead(database.engine, cres.arg),
                                      cres.tables[i].Name)
             IN DriverFails(database, stmt, ModeOf(cres.plan, stmt))
          /\ cres.tables[i].Columns = <<>>
          /\ cres.tables[j].Columns # <<>>

\* C18: on a connection of either type, GetTables on a schema in which a
\* table was created returns an entry of that name whose columns are not
\* empty and carry the nullability the table was created with.
GetTablesListsColumns ==
    Returned("GetTables") /\ cres.plan = {} =>
        LET s == SchemaRead(database.engine, cres.arg) IN
        \A k \in DOMAIN database.tables :
            k[1] = s =>
              \E i \in 1..Len(cres.tables) :
                 /\ cres.tables[i].Name = k[2]
                 /\ cres.tables[i].Columns # <<>>
                 /\ [j \in 1..Len(cres.tables[i].Columns) |->
                        cres.tables[i].Columns[j].Nullable]
                      = [j \in 1..Len(database.tables[k].cols) |->
                           database.tables[k].cols[j].Nullable]

\* C19: a QueryResult has RowsReturned equal to the number of its rows and
\* in every row one value per column, and selecting the rows of a table
\* that holds N rows returns N rows.
QueryResultConsistent ==
    cres.op = "Query" /\ ~cres.result.isNil =>
        /\ cres.result.Stats.RowsReturned = Len(cres.result.Rows)
        /\ \A k \in 1..Len(cres.result.Rows) :
              Len(cres.result.Rows[k]) = Len(cres.result.Columns)
        /\ cres.stmt.kind = "select" =>
              Len(cres.result.Rows)
                = cres.before.tables[<<cres.stmt.schema, cres.stmt.table>>].rows

\* Witness of C19: a select returned the two rows inserted into a table of
\* two columns.
SelectedInsertedRows ==
    /\ cres.op = "Query"
    /\ cres.stmt.kind = "select"
    /\ cres.err = NoError
    /\ Len(cres.result.Rows) = 2
    /\ Len(cres.result.Columns) = 2
    /\ cres.result.Stats.RowsReturned = 2

\* C20: when the driver rejects the statement, fails to scan a row or
\* reports an iteration error, Query returns a nil result and a wrapped
\* error, no rows, and has sent the statement once.
QueryFailsWhole ==
    cres.op = "Query" /\ DriverFails(cres.before, cres.stmt, cres.mode) =>
        /\ cres.result.isNil
        /\ cres.result.Rows = <<>>
        /\ cres.err \in {"query execution failed", "failed to get column types",
                          "failed to scan row", "rows iteration error"}
        /\ cres.log = <<cres.stmt>>

\* Witness of C20: the scan of the second row of a select failed after the
\* first row had been read, and Query returned the error alone.
QueryScanFailedAfterRows ==
    /\ cres.op = "Query"
    /\ cres.stmt.kind = "select"
    /\ cres.mode = "scan fails"
    /\ DriverQuery(cres.before, cres.stmt, cres.mode).scanErrAt = 2
    /\ cres.err = "failed to scan row"
    /\ cres.result.isNil

====
